---------------------------- MODULE Spec2Model ----------------------------
(***************************************************************************)
(* Model of the keyring of nomad/encrypter.go: the in-memory keyring       *)
(* (Encrypter.keyring), the on-disk keystore (files under keystorePath),   *)
(* the root key metadata table of the state store, and the operations of   *)
(* the Encrypter: Encrypt, Decrypt, SignClaims, VerifyClaim, AddKey,       *)
(* RemoveKey, GetPublicKey and NewEncrypter/loadKeystore.                  *)
(*                                                                         *)
(* Byte slices are sequences of byte records; keys, signatures and KMS     *)
(* blobs are symbolic (an ideal AEAD: Open succeeds exactly on what Seal   *)
(* produced under the same key, nonce and additional data).                *)
(***************************************************************************)
EXTENDS Integers, Sequences, FiniteSets, TLC

VARIABLES
    metas,      \* state store: key ID -> "none" | "active" | "inactive" | "deprecated"
    created,    \* key material as generated at rotation (held by the leader / peers)
    keyring,    \* Encrypter.keyring: key ID -> keyset (a Go map: partial)
    files,      \* keystore directory: path (dot-separated segments) -> file body
    running,    \* NewEncrypter returned an Encrypter (FALSE: it returned an error)
    shutdown,   \* srv.shutdownCtx is cancelled
    enc,        \* the last return of Encrypt (with the cleartext it was given)
    sc,         \* the SignClaims call: position, locals and last return
    added,      \* key ID -> what the last successful AddKey for it was given and published
    issuer,     \* Encrypter.issuer: srv.GetConfig().OIDCIssuer
    booted,     \* the keyring is as NewEncrypter built it from the keystore as it is:
                \* no AddKey, no RemoveKey and no change of a file since
    krr,        \* KeyringReplicator.run: position and locals of the goroutine
    peers,      \* the other servers, leader first: the key IDs whose material each holds
    dec,        \* the last return of Decrypt
    ak,         \* the last AddKey that returned an error: the key and the error
    edits,      \* how many times an operator has edited or renamed a keystore file
    ver,        \* the last return of VerifyClaim (with the token it was given)
    configs,    \* srv.config.KEKProviderConfigs: the configured wrapping providers
    providerConfigs, \* Encrypter.providerConfigs: provider type + name -> its configuration
    lock,       \* Encrypter.lock: the writer holding it and the readers holding it
    th          \* the calls in flight on concurrent goroutines: operation and position

vars ==
    <<metas, created, keyring, files, running, shutdown, enc, sc, added, issuer, booted,
      krr, peers, dec, ak, edits, ver, configs, providerConfigs, lock, th>>

-----------------------------------------------------------------------------
(* Bounds *)

NKeys == 2          \* key IDs in use
MaxClearLen == 1    \* longest cleartext given to Encrypt
NNonces == 1        \* distinct values the random nonce source yields
MaxEdits == 1       \* hand edits of keystore files by an operator

(* Program constants *)

NonceSize == 12             \* keyset.cipher.NonceSize() of AES-GCM
TagSize == 16               \* the GCM tag cipher.Seal appends
SignTimeoutMs == 5000       \* context.WithTimeout(e.srv.shutdownCtx, 5*time.Second)
SignSleepMs == 50           \* time.Sleep(50 * time.Millisecond)

-----------------------------------------------------------------------------
(* Values *)

UUIDs == <<"k1", "k2", "k3", "k4">>
KeyIDs == {UUIDs[i] : i \in 1..NKeys}

KeyIndex(k) ==
    IF \E i \in 1..Len(UUIDs) : UUIDs[i] = k
    THEN CHOOSE i \in 1..Len(UUIDs) : UUIDs[i] = k
    ELSE 0

\* helper.IsUUID on a file name prefix given as its dot-separated segments
IsUUID(id) == Len(id) = 1 /\ \E i \in 1..Len(UUIDs) : UUIDs[i] = id[1]

EncryptionAlgorithmAES256GCM == "aes256-gcm"

AeadProvider == [Provider |-> "aead", Name |-> ""]
AwsProvider == [Provider |-> "awskms", Name |-> ""]
\* a provider whose type is left empty: encryptDEK wraps with the built-in AEAD
DefaultProvider == [Provider |-> "", Name |-> ""]
\* a provider type newKMSWrapper has no case for
NonesuchProvider == [Provider |-> "nonesuch", Name |-> ""]

DEKs == {"dek1"}
RSAKeys == {"", "rsaA"}      \* "" is no RSA key; "rsaA" a valid PKCS #1 DER key

RootKeyOf(k, dek, rsa, provs) ==
    [Meta |-> [KeyID |-> k, Algorithm |-> EncryptionAlgorithmAES256GCM,
               CreateTime |-> KeyIndex(k), KEKProviders |-> provs],
     Key |-> dek, RSAKey |-> rsa]

\* a byte: a plain value, or a byte of AEAD output. b binds the first tag byte
\* to what was sealed; every byte of a []byte has this shape
Plain(v) == [t |-> "plain", v |-> v, b |-> <<>>]

RECURSIVE SeqsUpTo(_, _)
SeqsUpTo(S, n) ==
    IF n = 0 THEN {<<>>}
    ELSE LET shorter == SeqsUpTo(S, n - 1)
         IN shorter \cup {Append(s, x) : s \in {t \in shorter : Len(t) = n - 1}, x \in S}

ClearBytes == {Plain(7)}
Cleartexts == SeqsUpTo(ClearBytes, MaxClearLen)

\* crypto.Bytes(n): the values the random source may yield
RandomBytes(n) == {[i \in 1..n |-> Plain(v)] : v \in 1..NNonces}

-----------------------------------------------------------------------------
(* cipher.AEAD of AES-GCM, symbolic *)

\* the values of a byte sequence
Values(bytes) == [i \in 1..Len(bytes) |-> bytes[i].v]

\* Seal(dst, nonce, plaintext, additional) without the dst prefix: the
\* encrypted bytes, then the tag, which depends on all that was sealed
Seal(key, nonce, plaintext, additional) ==
    [i \in 1..Len(plaintext) |-> [t |-> "enc", v |-> plaintext[i].v, b |-> <<>>]]
    \o
    [i \in 1..TagSize |->
        [t |-> "tag", v |-> i,
         b |-> IF i = 1 THEN <<key, Values(nonce), additional, Values(plaintext)>>
               ELSE <<>>]]

\* Open(nil, nonce, ciphertext, additional)
Open(key, nonce, ciphertext, additional) ==
    IF Len(ciphertext) < TagSize
    THEN [out |-> <<>>, err |-> "ciphertext-invalid"]
    ELSE LET plaintext == [i \in 1..(Len(ciphertext) - TagSize) |-> Plain(ciphertext[i].v)]
         IN IF ciphertext = Seal(key, nonce, plaintext, additional)
            THEN [out |-> plaintext, err |-> "nil"]
            ELSE [out |-> <<>>, err |-> "ciphertext-invalid"]

-----------------------------------------------------------------------------
(* Signing keys, symbolic *)

\* ed25519.NewKeyFromSeed(rootKey.Key)
Ed25519NewKeyFromSeed(seed) == <<"ed25519-private", seed>>

\* eddsaPrivateKey.Public()
Ed25519Public(priv) == <<"ed25519-public", priv[2]>>

\* x509.ParsePKCS1PrivateKey(rootKey.RSAKey)
ParsePKCS1PrivateKey(der) ==
    IF der = "rsaA"
    THEN [key |-> <<"rsa-private", der>>, err |-> "nil"]
    ELSE [key |-> <<"", "">>, err |-> "bad-rsa-key"]

\* x509.MarshalPKCS1PublicKey(&rsaKey.PublicKey)
MarshalPKCS1PublicKey(priv) == <<"rsa-public", priv[2]>>

NoRSAKey == <<"", "">>

-----------------------------------------------------------------------------
(* The keyring: Encrypter.keyring *)

NilKeyset ==
    [rootKey |-> RootKeyOf("", "", "", <<>>), cipher |-> "",
     eddsaPrivateKey |-> NoRSAKey, rsaPrivateKey |-> NoRSAKey,
     rsaPKCS1PublicKey |-> NoRSAKey]

\* keysetByIDLocked(keyID) on keyring ring
keysetByIDLocked(ring, keyID) ==
    IF keyID \in DOMAIN ring
    THEN [keyset |-> ring[keyID], err |-> "nil"]
    ELSE [keyset |-> NilKeyset, err |-> "no-such-key"]

\* store.GetActiveRootKeyMeta: the key IDs whose metadata is in state active
ActiveRootKeyMeta(ms) == {k \in KeyIDs : ms[k] = "active"}

\* activeKeySet() reporting every failure as the keyring not being initialized
activeKeySetUninitialized(ms, ring) ==
    IF ActiveRootKeyMeta(ms) = {}
       \/ (CHOOSE k \in ActiveRootKeyMeta(ms) : TRUE) \notin DOMAIN ring
    THEN [keyset |-> NilKeyset, err |-> "not-initialized"]
    ELSE keysetByIDLocked(ring, CHOOSE k \in ActiveRootKeyMeta(ms) : TRUE)

\* activeKeySet() against state store ms and keyring ring
activeKeySet(ms, ring) ==
    IF ActiveRootKeyMeta(ms) = {}
    THEN [keyset |-> NilKeyset, err |-> "not-initialized"]
    ELSE keysetByIDLocked(ring, CHOOSE k \in ActiveRootKeyMeta(ms) : TRUE)

\* the function f with key k set to v (a Go map assignment)
MapPut(f, k, v) == [x \in DOMAIN f \cup {k} |-> IF x = k THEN v ELSE f[x]]

\* delete(m, k)
MapDelete(f, k) == [x \in DOMAIN f \ {k} |-> f[x]]

EmptyMap == [x \in {} |-> 0]

\* a nil *structs.RootKey or *structs.RootKeyMeta
Nil == [nil |-> TRUE]

\* addCipher that puts the keyset into the keyring before it parses the RSA key
addCipherInstallFirst(ring, rootKey) ==
    IF rootKey = Nil \/ rootKey.Meta = Nil
    THEN [ring |-> ring, err |-> "missing-metadata"]
    ELSE IF rootKey.Meta.Algorithm # EncryptionAlgorithmAES256GCM
    THEN [ring |-> ring, err |-> "invalid-algorithm"]
    ELSE IF rootKey.Key \notin DEKs
    THEN [ring |-> ring, err |-> "bad-key"]
    ELSE LET rsa == ParsePKCS1PrivateKey(rootKey.RSAKey)
             ks == [rootKey |-> rootKey,
                    cipher |-> rootKey.Key,
                    eddsaPrivateKey |-> Ed25519NewKeyFromSeed(rootKey.Key),
                    rsaPrivateKey |-> IF rootKey.RSAKey # "" THEN rsa.key ELSE NoRSAKey,
                    rsaPKCS1PublicKey |-> IF rootKey.RSAKey # ""
                                          THEN MarshalPKCS1PublicKey(rsa.key)
                                          ELSE NoRSAKey]
         IN [ring |-> MapPut(ring, rootKey.Meta.KeyID, ks),
             err |-> IF rootKey.RSAKey # "" /\ rsa.err # "nil"
                     THEN "bad-rsa-key" ELSE "nil"]

\* addCipher that keeps the parsed RSA private key but not its public DER form
addCipherWithoutPublicDER(ring, rootKey) ==
    LET a == addCipherInstallFirst(ring, rootKey)
    IN IF a.err # "nil"
       THEN [ring |-> ring, err |-> a.err]
       ELSE [ring |-> [a.ring EXCEPT ![rootKey.Meta.KeyID].rsaPKCS1PublicKey = NoRSAKey],
             err |-> "nil"]

\* addCipher(rootKey): the keyring after it, and the error
addCipher(ring, rootKey) ==
    IF rootKey = Nil \/ rootKey.Meta = Nil
    THEN [ring |-> ring, err |-> "missing-metadata"]
    ELSE IF rootKey.Meta.Algorithm # EncryptionAlgorithmAES256GCM
    THEN [ring |-> ring, err |-> "invalid-algorithm"]
    ELSE IF rootKey.Key \notin DEKs
    THEN [ring |-> ring, err |-> "bad-key"]
    ELSE LET rsa == ParsePKCS1PrivateKey(rootKey.RSAKey)
             ks == [rootKey |-> rootKey,
                    cipher |-> rootKey.Key,
                    eddsaPrivateKey |-> Ed25519NewKeyFromSeed(rootKey.Key),
                    rsaPrivateKey |-> IF rootKey.RSAKey # "" THEN rsa.key ELSE NoRSAKey,
                    rsaPKCS1PublicKey |-> IF rootKey.RSAKey # ""
                                          THEN MarshalPKCS1PublicKey(rsa.key)
                                          ELSE NoRSAKey]
         IN IF rootKey.RSAKey # "" /\ rsa.err # "nil"
            THEN [ring |-> ring, err |-> "bad-rsa-key"]
            ELSE [ring |-> MapPut(ring, rootKey.Meta.KeyID, ks), err |-> "nil"]

\* GetPublicKey(keyID)
GetPublicKey(ring, keyID) ==
    LET r == keysetByIDLocked(ring, keyID)
        ks == r.keyset
    IN IF r.err # "nil"
       THEN [KeyID |-> "", PublicKey |-> NoRSAKey, Algorithm |-> "", CreateTime |-> 0,
             err |-> r.err]
       ELSE IF ks.rsaPrivateKey # NoRSAKey
       THEN [KeyID |-> keyID, PublicKey |-> ks.rsaPKCS1PublicKey, Algorithm |-> "RS256",
             CreateTime |-> ks.rootKey.Meta.CreateTime, err |-> "nil"]
       ELSE [KeyID |-> keyID, PublicKey |-> Ed25519Public(ks.eddsaPrivateKey),
             Algorithm |-> "EdDSA",
             CreateTime |-> ks.rootKey.Meta.CreateTime, err |-> "nil"]

-----------------------------------------------------------------------------
(* Encrypt and Decrypt *)

NoBytes == <<>>

\* no additional data at all
AdditionalDataNone(keyID) == ""

\* additional := []byte(keyID): the key ID is the AEAD's additional data
AdditionalData(keyID) == keyID

\* Encrypt that reports every failed lookup as the keyring not being
\* initialized
EncryptUninitialized(ms, ring, cleartext, nonce) ==
    LET a == activeKeySetUninitialized(ms, ring)
        keyID == a.keyset.rootKey.Meta.KeyID
    IN IF a.err # "nil"
       THEN [ciphertext |-> NoBytes, keyID |-> "", err |-> a.err]
       ELSE [ciphertext |-> nonce \o Seal(a.keyset.cipher, nonce, cleartext,
                                          AdditionalData(keyID)),
             keyID |-> keyID, err |-> "nil"]

\* Encrypt that returns what Seal appends, without the nonce in front
EncryptSealOnly(ms, ring, cleartext, nonce) ==
    LET a == activeKeySet(ms, ring)
        keyID == a.keyset.rootKey.Meta.KeyID
    IN IF a.err # "nil"
       THEN [ciphertext |-> NoBytes, keyID |-> "", err |-> a.err]
       ELSE [ciphertext |-> Seal(a.keyset.cipher, nonce, cleartext, AdditionalData(keyID)),
             keyID |-> keyID, err |-> "nil"]

\* Encrypt(cleartext), with the nonce crypto.Bytes yields
Encrypt(ms, ring, cleartext, nonce) ==
    LET a == activeKeySet(ms, ring)
        keyID == a.keyset.rootKey.Meta.KeyID
    IN IF a.err # "nil"
       THEN [ciphertext |-> NoBytes, keyID |-> "", err |-> a.err]
       ELSE [ciphertext |-> nonce \o Seal(a.keyset.cipher, nonce, cleartext,
                                          AdditionalData(keyID)),
             keyID |-> keyID, err |-> "nil"]

\* Decrypt that hands Open the whole buffer, nonce included
DecryptKeepsNonce(ring, ciphertext, keyID) ==
    LET r == keysetByIDLocked(ring, keyID)
    IN IF r.err # "nil"
       THEN [out |-> NoBytes, err |-> r.err]
       ELSE IF Len(ciphertext) < NonceSize
       THEN [out |-> NoBytes, err |-> "panic"]
       ELSE Open(r.keyset.cipher, SubSeq(ciphertext, 1, NonceSize), ciphertext,
                 AdditionalData(keyID))

\* Decrypt that takes the cipher of the active keyset, not of the key ID given
DecryptWithActiveKeyset(ring, ciphertext, keyID) ==
    LET r == keysetByIDLocked(ring, keyID)
        a == activeKeySet(metas, ring)
    IN IF r.err # "nil"
       THEN [out |-> NoBytes, err |-> r.err]
       ELSE IF a.err # "nil"
       THEN [out |-> NoBytes, err |-> a.err]
       ELSE IF Len(ciphertext) < NonceSize
       THEN [out |-> NoBytes, err |-> "panic"]
       ELSE Open(a.keyset.cipher,
                 SubSeq(ciphertext, 1, NonceSize),
                 SubSeq(ciphertext, NonceSize + 1, Len(ciphertext)),
                 AdditionalData(a.keyset.rootKey.Meta.KeyID))

\* Decrypt(ciphertext, keyID); slicing a ciphertext shorter than the nonce panics
Decrypt(ring, ciphertext, keyID) ==
    LET r == keysetByIDLocked(ring, keyID)
    IN IF r.err # "nil"
       THEN [out |-> NoBytes, err |-> r.err]
       ELSE IF Len(ciphertext) < NonceSize
       THEN [out |-> NoBytes, err |-> "panic"]
       ELSE Open(r.keyset.cipher,
                 SubSeq(ciphertext, 1, NonceSize),
                 SubSeq(ciphertext, NonceSize + 1, Len(ciphertext)),
                 AdditionalData(keyID))

-----------------------------------------------------------------------------
(* Workload identity tokens: a compact JWT is its three segments *)

NoClaims == [Subject |-> "", Issuer |-> ""]
NoHeader == [alg |-> "", kid |-> "", typ |-> ""]
EmptyToken == <<>>           \* the empty string: no segments

ClaimsIn == {[Subject |-> "s1", Issuer |-> ""], [Subject |-> "s1", Issuer |-> "caller"]}

\* jose signing of header and payload with a private key
JoseSign(alg, priv, header, payload) ==
    [alg |-> alg, key |-> priv, header |-> header, payload |-> payload]

\* the public half of a symbolic private key
PublicOf(priv) ==
    IF priv[1] = "rsa-private" THEN MarshalPKCS1PublicKey(priv) ELSE Ed25519Public(priv)

\* signing that always takes the ed25519 key
signWithKeysetEdDSA(ks, claims, iss) ==
    LET c == IF iss # "" THEN [claims EXCEPT !.Issuer = iss] ELSE claims
        kid == ks.rootKey.Meta.KeyID
        header == [alg |-> "EdDSA", kid |-> kid, typ |-> "JWT"]
    IN [token |-> <<header, c, JoseSign("EdDSA", ks.eddsaPrivateKey, header, c)>>,
        keyID |-> kid, claims |-> c, err |-> "nil"]

\* the part of SignClaims after the keyset is acquired (lines 212-239)
signWithKeyset(ks, claims, iss) ==
    LET c == IF iss # "" THEN [claims EXCEPT !.Issuer = iss] ELSE claims
        kid == ks.rootKey.Meta.KeyID
        alg == IF ks.rsaPrivateKey # NoRSAKey THEN "RS256" ELSE "EdDSA"
        key == IF ks.rsaPrivateKey # NoRSAKey THEN ks.rsaPrivateKey ELSE ks.eddsaPrivateKey
        header == [alg |-> alg, kid |-> kid, typ |-> "JWT"]
    IN [token |-> <<header, c, JoseSign(alg, key, header, c)>>, keyID |-> kid,
        claims |-> c, err |-> "nil"]

\* token.Claims(typedPubKey, claims): the signature check of go-jose
JoseVerify(pub, token) ==
    LET header == token[1]
        sig == token[3]
    IN /\ sig.alg = header.alg
       /\ header.alg = (IF pub[1] = "rsa-public" THEN "RS256" ELSE "EdDSA")
       /\ PublicOf(sig.key) = pub
       /\ sig.header = header
       /\ sig.payload = token[2]

\* VerifyClaim that checks a token of an unknown key ID against the key that
\* signed it
VerifyClaimBySigner(ring, token) ==
    IF Len(token) # 3
    THEN [claims |-> NoClaims, err |-> "bad-token"]
    ELSE IF token[1].kid = ""
    THEN [claims |-> NoClaims, err |-> "bad-token"]
    ELSE LET pubKey == GetPublicKey(ring, token[1].kid)
             pub == IF pubKey.err = "nil" THEN pubKey.PublicKey ELSE PublicOf(token[3].key)
         IN IF ~JoseVerify(pub, token)
            THEN [claims |-> NoClaims, err |-> "bad-signature"]
            ELSE [claims |-> token[2], err |-> "nil"]

\* VerifyClaim(tokenString)
VerifyClaim(ring, token) ==
    IF Len(token) # 3
    THEN [claims |-> NoClaims, err |-> "bad-token"]
    ELSE IF token[1].kid = ""
    THEN [claims |-> NoClaims, err |-> "bad-token"]
    ELSE LET pubKey == GetPublicKey(ring, token[1].kid)
         IN IF pubKey.err # "nil"
            THEN [claims |-> NoClaims, err |-> pubKey.err]
            ELSE IF ~JoseVerify(pubKey.PublicKey, token)
            THEN [claims |-> NoClaims, err |-> "bad-signature"]
            ELSE [claims |-> token[2], err |-> "nil"]

-----------------------------------------------------------------------------
(* KMS wrappers (go-kms-wrapping), symbolic *)

KEKs == {"kek1"}             \* crypto.Bytes(32) for the key encryption key
ExternalProviders == {"awskms", "azurekeyvault", "gcpckms", "transit"}

EmptyBlob == [w |-> "", kek |-> "", pt |-> ""]
NilWrapper == [type |-> "", kek |-> ""]

\* newKMSWrapper with an AEAD wrapper that takes any key bytes, none included
newKMSWrapperAnyKEK(provider, name, keyID, kek) ==
    IF provider \in ExternalProviders
    THEN [wrapper |-> [type |-> provider, kek |-> ""], err |-> "nil"]
    ELSE [wrapper |-> [type |-> "aead", kek |-> kek], err |-> "nil"]

\* newKMSWrapper(provider, name, keyID, kek), no provider configured
newKMSWrapper(provider, name, keyID, kek) ==
    IF provider \in ExternalProviders
    THEN [wrapper |-> [type |-> provider, kek |-> ""], err |-> "nil"]
    ELSE IF kek \notin KEKs
    THEN [wrapper |-> NilWrapper, err |-> "bad-kek"]
    ELSE [wrapper |-> [type |-> "aead", kek |-> kek], err |-> "nil"]

\* wrapper.Encrypt(ctx, plaintext); kmsOk: the external service answers
WrapperEncrypt(wrapper, plaintext, kmsOk) ==
    IF wrapper.type # "aead" /\ ~kmsOk
    THEN [blob |-> EmptyBlob, err |-> "kms-io"]
    ELSE [blob |-> [w |-> wrapper.type, kek |-> wrapper.kek, pt |-> plaintext],
          err |-> "nil"]

\* wrapper.Decrypt(ctx, blob)
WrapperDecrypt(wrapper, blob, kmsOk) ==
    IF wrapper.type # "aead" /\ ~kmsOk
    THEN [pt |-> "", err |-> "kms-io"]
    ELSE IF blob.w = wrapper.type /\ blob.kek = wrapper.kek
    THEN [pt |-> blob.pt, err |-> "nil"]
    ELSE [pt |-> "", err |-> "kms-io"]

-----------------------------------------------------------------------------
(* The keystore: one file per key and provider *)

nomadKeystoreExtension == <<"nks", "json">>

NoWrapper ==
    [Meta |-> RootKeyOf("", "", "", <<>>).Meta, EncryptedDataEncryptionKey |-> EmptyBlob,
     EncryptedRSAKey |-> EmptyBlob, KeyEncryptionKey |-> "", Provider |-> "",
     ProviderName |-> ""]

\* encryptDEK(rootKey, provider) with the random KEK kek
encryptDEK(rootKey, provider, kek, kmsOk) ==
    LET k == IF provider.Provider = "aead" \/ provider.Provider = "" THEN kek ELSE ""
        w == newKMSWrapper(provider.Provider, provider.Name, rootKey.Meta.KeyID, k)
        rootBlob == WrapperEncrypt(w.wrapper, rootKey.Key, kmsOk)
        rsaBlob == WrapperEncrypt(w.wrapper, rootKey.RSAKey, kmsOk)
    IN IF w.err # "nil"
       THEN [kekWrapper |-> NoWrapper, err |-> "panic"]   \* the error is dropped; wrapper is nil
       ELSE IF rootBlob.err # "nil"
       THEN [kekWrapper |-> NoWrapper, err |-> rootBlob.err]
       ELSE IF rootKey.RSAKey # "" /\ rsaBlob.err # "nil"
       THEN [kekWrapper |-> NoWrapper, err |-> rsaBlob.err]
       ELSE [kekWrapper |->
                [Meta |-> rootKey.Meta,
                 EncryptedDataEncryptionKey |-> rootBlob.blob,
                 EncryptedRSAKey |-> IF rootKey.RSAKey # "" THEN rsaBlob.blob ELSE EmptyBlob,
                 KeyEncryptionKey |-> k,
                 Provider |-> provider.Provider,
                 ProviderName |-> provider.Name],
             err |-> "nil"]

\* the path saveKeyToStore writes for a provider, as dot-separated segments
KeyFilePath(keyID, provider) ==
    LET extension ==
            IF provider.Provider # "aead"
            THEN <<provider.Provider>>
                 \o (IF provider.Name # "" THEN <<provider.Name>> ELSE <<>>)
                 \o nomadKeystoreExtension
            ELSE nomadKeystoreExtension
    IN <<keyID>> \o extension

\* json.Marshal(kekWrapper)
JsonMarshal(kekWrapper) == [valid |-> TRUE, w |-> kekWrapper]

\* saveKeyToStore(rootKey): the providers from position i on
RECURSIVE saveFrom(_, _, _, _, _)
saveFrom(fs, rootKey, i, kek, kmsOk) ==
    IF i > Len(rootKey.Meta.KEKProviders)
    THEN [files |-> fs, err |-> "nil"]
    ELSE LET provider == rootKey.Meta.KEKProviders[i]
             e == encryptDEK(rootKey, provider, kek, kmsOk)
             path == KeyFilePath(rootKey.Meta.KeyID, provider)
         IN IF e.err # "nil"
            THEN [files |-> fs, err |-> e.err]
            ELSE saveFrom(MapPut(fs, path, JsonMarshal(e.kekWrapper)), rootKey, i + 1,
                          kek, kmsOk)

\* saveKeyToStore(rootKey)
saveKeyToStore(fs, rootKey, kek, kmsOk) == saveFrom(fs, rootKey, 1, kek, kmsOk)

\* meta.Validate() of the file's metadata
MetaValidate(meta) == IsUUID(<<meta.KeyID>>) /\ meta.Algorithm # ""

NoRootKey == RootKeyOf("", "", "", <<>>)

\* loadKeyFromStore(path)
loadKeyFromStore(fs, path, kmsOk) ==
    LET raw == fs[path]
        kekWrapper == raw.w
        meta == kekWrapper.Meta
        w == newKMSWrapper(kekWrapper.Provider, kekWrapper.ProviderName, meta.KeyID,
                           kekWrapper.KeyEncryptionKey)
        key == WrapperDecrypt(w.wrapper, kekWrapper.EncryptedDataEncryptionKey, kmsOk)
        rsaKey == WrapperDecrypt(w.wrapper, kekWrapper.EncryptedRSAKey, kmsOk)
    IN IF ~raw.valid
       THEN [key |-> NoRootKey, err |-> "keystore-io"]
       ELSE IF ~MetaValidate(meta)
       THEN [key |-> NoRootKey, err |-> "invalid-metadata"]
       ELSE IF w.err # "nil"
       THEN [key |-> NoRootKey, err |-> w.err]
       ELSE IF key.err # "nil"
       THEN [key |-> NoRootKey, err |-> key.err]
       ELSE IF kekWrapper.EncryptedRSAKey # EmptyBlob /\ rsaKey.err # "nil"
       THEN [key |-> NoRootKey, err |-> rsaKey.err]
       ELSE [key |-> [Meta |-> meta, Key |-> key.pt,
                      RSAKey |-> IF kekWrapper.EncryptedRSAKey # EmptyBlob
                                 THEN rsaKey.pt ELSE ""],
             err |-> "nil"]

\* the extensions a key's files can have, in the lexical order of their paths
ExtsInOrder == << <<"">>, <<"awskms">>, <<>> >>

\* a file name prefix that is not a UUID
NotAUUID == "zz"

\* the file name prefixes in the keystore directory, in lexical order
Prefixes == SubSeq(UUIDs, 1, NKeys) \o <<NotAUUID>>

\* every path of the keystore directory, in the order filepath.Walk visits them
AllPaths ==
    [i \in 1..(Len(Prefixes) * Len(ExtsInOrder)) |->
        <<Prefixes[((i - 1) \div Len(ExtsInOrder)) + 1]>>
        \o ExtsInOrder[((i - 1) % Len(ExtsInOrder)) + 1]
        \o nomadKeystoreExtension]

HasKeystoreSuffix(path) ==
    Len(path) >= 2 /\ SubSeq(path, Len(path) - 1, Len(path)) = nomadKeystoreExtension

\* strings.TrimSuffix(filepath.Base(path), nomadKeystoreExtension)
TrimKeystoreSuffix(path) == SubSeq(path, 1, Len(path) - 2)

\* the files loadKeystore reads as key files: <UUID>.nks.json
IsKeyFile(path) == HasKeystoreSuffix(path) /\ IsUUID(TrimKeystoreSuffix(path))

\* the walk function without the comparison of the file's key ID and its name
loadPathAnyName(fs, ring, path, kmsOk) ==
    IF ~IsKeyFile(path)
    THEN [ring |-> ring, err |-> "nil"]
    ELSE LET l == loadKeyFromStore(fs, path, kmsOk)
         IN IF l.err # "nil" THEN [ring |-> ring, err |-> l.err]
            ELSE addCipher(ring, l.key)

\* the walk function of loadKeystore on one path: the keyring after it, and the error
loadPath(fs, ring, path, kmsOk) ==
    IF ~HasKeystoreSuffix(path)
    THEN [ring |-> ring, err |-> "nil"]
    ELSE LET id == TrimKeystoreSuffix(path)
             l == loadKeyFromStore(fs, path, kmsOk)
             a == addCipher(ring, l.key)
         IN IF ~IsUUID(id)
            THEN [ring |-> ring, err |-> "nil"]
            ELSE IF l.err # "nil"
            THEN [ring |-> ring, err |-> l.err]
            ELSE IF <<l.key.Meta.KeyID>> # id
            THEN [ring |-> ring, err |-> "id-mismatch"]
            ELSE a

\* filepath.Walk from position i of the paths present
RECURSIVE walkFrom(_, _, _, _, _)
walkFrom(fs, ring, order, i, kmsOk) ==
    IF i > Len(order)
    THEN [ring |-> ring, err |-> "nil"]
    ELSE LET r == loadPath(fs, ring, order[i], kmsOk)
         IN IF r.err # "nil" THEN r ELSE walkFrom(fs, r.ring, order, i + 1, kmsOk)

IsPresent(fs, path) == path \in DOMAIN fs

\* loadKeystore() into an empty keyring
loadKeystore(fs, kmsOk) ==
    walkFrom(fs, EmptyMap, SelectSeq(AllPaths, LAMBDA p : IsPresent(fs, p)), 1, kmsOk)

-----------------------------------------------------------------------------
(* The state store's root key metadata table (Keyring.Rotate, Keyring.Update *)
(* and Keyring.Delete as the log applies them)                               *)

\* a rotation commits the metadata of a new key as active; the key that was
\* active becomes inactive; the material exists from then on and never changes
LogRotate(k, r) ==
    /\ k \notin DOMAIN created
    /\ KeyIndex(k) = Cardinality(DOMAIN created) + 1
    /\ r.Meta.KeyID = k
    /\ metas' = [x \in KeyIDs |->
                    IF x = k THEN "active"
                    ELSE IF metas[x] = "active" THEN "inactive" ELSE metas[x]]
    /\ created' = MapPut(created, k, r)
    /\ UNCHANGED <<keyring, files, running, shutdown, enc, sc, added, issuer, booted,
                 krr, peers, dec, ak, edits,
                 ver, configs, providerConfigs, lock, th>>

\* an inactive key is made the active key again
LogActivate(k) ==
    /\ metas[k] = "inactive"
    /\ metas' = [x \in KeyIDs |->
                    IF x = k THEN "active"
                    ELSE IF metas[x] = "active" THEN "inactive" ELSE metas[x]]
    /\ UNCHANGED <<created, keyring, files, running, shutdown, enc, sc, added, issuer, booted,
                 krr, peers, dec, ak, edits,
                 ver, configs, providerConfigs, lock, th>>

\* an inactive key is deprecated
LogDeprecate(k) ==
    /\ metas[k] = "inactive"
    /\ metas' = [metas EXCEPT ![k] = "deprecated"]
    /\ UNCHANGED <<created, keyring, files, running, shutdown, enc, sc, added, issuer, booted,
                 krr, peers, dec, ak, edits,
                 ver, configs, providerConfigs, lock, th>>

\* a tombstone removes the metadata of a key that is not the active key
LogDelete(k) ==
    /\ metas[k] \in {"inactive", "deprecated"}
    /\ metas' = [metas EXCEPT ![k] = "none"]
    /\ UNCHANGED <<created, keyring, files, running, shutdown, enc, sc, added, issuer, booted,
                 krr, peers, dec, ak, edits,
                 ver, configs, providerConfigs, lock, th>>

-----------------------------------------------------------------------------
(* The Encrypter's operations *)

\* AddKey that takes the keyset out of the keyring again when the save fails
addKeyResultRollback(ring, fs, rootKey, kek, kmsOk) ==
    LET a == addCipher(ring, rootKey)
        s == saveKeyToStore(fs, rootKey, kek, kmsOk)
    IN IF a.err # "nil" \/ s.err # "nil"
       THEN [ring |-> ring, files |-> s.files, err |-> IF a.err # "nil" THEN a.err ELSE s.err]
       ELSE [ring |-> a.ring, files |-> s.files, err |-> "nil"]

\* what AddKey(rootKey) leaves behind and returns
addKeyResult(ring, fs, rootKey, kek, kmsOk) ==
    LET a == addCipher(ring, rootKey)
        s == saveKeyToStore(fs, rootKey, kek, kmsOk)
    IN IF a.err # "nil"
       THEN [ring |-> a.ring, files |-> fs, err |-> a.err]
       ELSE [ring |-> a.ring, files |-> s.files, err |-> s.err]

\* no AddKey has failed since the process started
AkNone == [keyID |-> "", err |-> "nil"]

\* what a call of AddKey(rootKey) changes: the keyring, the keystore, and for
\* the caller its return
addKeyStep(k, rootKey, kek, kmsOk) ==
    LET r == addKeyResult(keyring, files, rootKey, kek, kmsOk)
    IN /\ keyring' = r.ring
       /\ files' = r.files
       /\ added' = IF r.err = "nil"
                   THEN MapPut(added, k,
                               [rootKey |-> rootKey,
                                PublicKey |-> GetPublicKey(r.ring, k).PublicKey])
                   ELSE added
       /\ ak' = IF r.err = "nil" THEN AkNone ELSE [keyID |-> k, err |-> r.err]
       /\ running' = (r.err # "panic")    \* a panic ends the process
       /\ booted' = FALSE

\* AddKey(rootKey) with the material of key k (Keyring.Rotate on the leader,
\* replicateKey on the others)
AddKey(k, kek, kmsOk) ==
    /\ running
    /\ k \in DOMAIN created
    /\ metas[k] # "none"
    /\ addKeyStep(k, created[k], kek, kmsOk)
    /\ UNCHANGED <<metas, created, shutdown, enc, sc, issuer, krr, peers, dec, edits,
                 ver, configs, providerConfigs, lock, th>>

\* the root keys addCipher refuses, made from a root key the log created:
\* nil, without metadata, of another algorithm, with a key that is no AES
\* key, with an RSA key that is not PKCS #1
BadRootKeys(rootKey) ==
    {Nil,
     [rootKey EXCEPT !.Meta = Nil],
     [rootKey EXCEPT !.Meta.Algorithm = "xchacha20"],
     [rootKey EXCEPT !.Key = "dek-of-5-bytes"],
     [rootKey EXCEPT !.RSAKey = "not-pkcs1"]}

\* AddKey(rootKey) with any root key a caller hands in
AddKeyOf(rootKey, kek) ==
    /\ running
    /\ addKeyStep(IF rootKey = Nil \/ rootKey.Meta = Nil THEN "" ELSE rootKey.Meta.KeyID,
                  rootKey, kek, TRUE)
    /\ UNCHANGED <<metas, created, shutdown, enc, sc, issuer, krr, peers, dec, edits,
                 ver, configs, providerConfigs, lock, th>>

\* RemoveKey that refuses a key ID the keyring does not hold
removeKeyStrict(ring, keyID) ==
    IF keyID \in DOMAIN ring
    THEN [ring |-> MapDelete(ring, keyID), err |-> "nil"]
    ELSE [ring |-> ring, err |-> "no-such-key"]

\* RemoveKey(keyID): the keyring after it, and the error it returns
removeKey(ring, keyID) == [ring |-> MapDelete(ring, keyID), err |-> "nil"]

\* RemoveKey(keyID)
RemoveKey(keyID) ==
    /\ running
    /\ keyring' = removeKey(keyring, keyID).ring
    /\ booted' = FALSE
    /\ ak' = IF ak.keyID = keyID THEN AkNone ELSE ak
    /\ UNCHANGED <<metas, created, files, running, shutdown, enc, sc, added, issuer,
                 krr, peers, dec, edits,
                 ver, configs, providerConfigs, lock, th>>

\* the replicator goroutine before its first pass over the state store
KrrIdle ==
    [pc |-> "idle", iter |-> <<>>, keyID |-> "", resp |-> "",
     reqs |-> <<>>, adds |-> <<>>, rerr |-> "nil", ctx |-> "live"]

\* a Go map that was never made: reads find nothing, an assignment panics
NilMap == [nil |-> TRUE, m |-> EmptyMap]

\* the string provider.Provider+provider.Name, as its bytes
StringBytes(str) ==
    CASE str = "" -> <<>>
      [] str = "t1" -> <<"t", "1">>
      [] str = "awskms" -> <<"a", "w", "s", "k", "m", "s">>
      [] str = "transit" -> <<"t", "r", "a", "n", "s", "i", "t">>
      [] OTHER -> <<str>>

ConfigKey(provider, name) == StringBytes(provider) \o StringBytes(name)

\* the loop of NewEncrypter over srv.config.KEKProviderConfigs, from entry i on:
\* an assignment to an entry of the nil map is a run-time panic
RECURSIVE registerFrom(_, _, _)
registerFrom(pc, cfgs, i) ==
    IF i > Len(cfgs)
    THEN [providerConfigs |-> pc, err |-> "nil"]
    ELSE IF pc.nil
    THEN [providerConfigs |-> pc, err |-> "panic"]
    ELSE registerFrom([pc EXCEPT !.m = MapPut(pc.m, ConfigKey(cfgs[i].Provider, cfgs[i].Name),
                                             cfgs[i])],
                      cfgs, i + 1)

\* the Encrypter's providerConfigs after the loop: the struct literal does not
\* name the field, so the loop starts from the nil map
registerProviders(cfgs) == registerFrom(NilMap, cfgs, 1)

\* config, ok := e.providerConfigs[provider+name] of newKMSWrapper
wrapperConfig(pc, provider, name) ==
    IF ConfigKey(provider, name) \in DOMAIN pc.m
    THEN [config |-> pc.m[ConfigKey(provider, name)].Config, ok |-> TRUE]
    ELSE [config |-> "", ok |-> FALSE]

\* NewEncrypter that returns the Encrypter whatever loadKeystore returned
NewEncrypterIgnoresError(kmsOk) ==
    /\ LET reg == registerProviders(configs)
       IN /\ running' = (reg.err = "nil")
          /\ keyring' = IF reg.err = "nil" THEN loadKeystore(files, kmsOk).ring ELSE EmptyMap
          /\ providerConfigs' = reg.providerConfigs
    /\ sc' = [sc EXCEPT !.pc = IF sc.pc = "wait" THEN "idle" ELSE sc.pc]
    /\ shutdown' = FALSE
    /\ booted' = TRUE
    /\ ak' = AkNone
    /\ krr' = KrrIdle
    /\ UNCHANGED <<metas, created, files, enc, added, issuer, peers, dec, edits,
                 ver, configs, lock, th>>

\* the process restarts: NewEncrypter registers the configured providers and
\* builds the keyring from the keystore alone; a SignClaims call in flight dies
\* with the old process
NewEncrypter(kmsOk) ==
    /\ LET reg == registerProviders(configs)
           l == loadKeystore(files, kmsOk)
       IN /\ running' = (reg.err = "nil" /\ l.err = "nil")
          /\ keyring' = IF reg.err = "nil" /\ l.err = "nil" THEN l.ring ELSE EmptyMap
          /\ providerConfigs' = reg.providerConfigs
    /\ sc' = [sc EXCEPT !.pc = IF sc.pc = "wait" THEN "idle" ELSE sc.pc]
    /\ shutdown' = FALSE
    /\ booted' = TRUE
    /\ ak' = AkNone
    /\ krr' = KrrIdle
    /\ UNCHANGED <<metas, created, files, enc, added, issuer, peers, dec, edits,
                 ver, configs, lock, th>>

\* an operator changes the wrapping providers of the server's configuration;
\* the process reads it when it starts next
Reconfigure(cfgs) ==
    /\ configs # cfgs
    /\ configs' = cfgs
    /\ booted' = FALSE
    /\ UNCHANGED <<metas, created, keyring, files, running, shutdown, enc, sc, added, issuer,
                 krr, peers, dec, ak, edits, ver, providerConfigs, lock, th>>

\* Decrypt has not returned yet
NoDec == [out |-> NoBytes, err |-> "nil"]

\* VerifyClaim has not returned yet
NoVer == [token |-> EmptyToken, claims |-> NoClaims, err |-> "none"]

\* sync.RWMutex unlocked: no writer (a goroutine's name, "" for none), no readers
Unlocked == [writer |-> "", readers |-> {}]

\* the goroutines that call into the Encrypter at the same time
Goroutines == {"g1", "g2"}

\* a goroutine that is in no call
NoCall == [op |-> "", pc |-> "idle", keyID |-> "", rootKey |-> NoRootKey]

\* the servers replicateKey asks: the leader, then getAllPeers()
Servers == <<"leader", "peer1", "peer2">>

NoEnc == [ciphertext |-> NoBytes, keyID |-> "", err |-> "none", cleartext |-> NoBytes]

\* a call of Encrypt(cleartext)
EncryptCall(cleartext, nonce) ==
    /\ running
    /\ LET e == Encrypt(metas, keyring, cleartext, nonce)
       IN enc' = [ciphertext |-> e.ciphertext, keyID |-> e.keyID, err |-> e.err,
                  cleartext |-> cleartext]
    /\ UNCHANGED <<metas, created, keyring, files, running, shutdown, sc, added, issuer, booted,
                 krr, peers, dec, ak, edits,
                 ver, configs, providerConfigs, lock, th>>

\* a call of VerifyClaim
VerifyCall(token) ==
    /\ running
    /\ LET v == VerifyClaim(keyring, token)
       IN ver' = [token |-> token, claims |-> v.claims, err |-> v.err]
    /\ UNCHANGED <<metas, created, keyring, files, running, shutdown, enc, sc, added, issuer,
                 booted, krr, peers, dec, ak, edits, configs, providerConfigs,
                 lock, th>>

\* a call of Decrypt; the slicing of a ciphertext shorter than the nonce is a
\* run-time panic, which ends the process
DecryptCall(ciphertext, keyID) ==
    /\ running
    /\ LET d == Decrypt(keyring, ciphertext, keyID)
       IN /\ dec' = d
          /\ running' = (d.err # "panic")
    /\ UNCHANGED <<metas, created, keyring, files, shutdown, enc, sc, added, issuer, booted,
                 krr, peers, ak, edits,
                 ver, configs, providerConfigs, lock, th>>

-----------------------------------------------------------------------------
(* SignClaims, one step per lookup of the active keyset *)

IdleCall ==
    [pc |-> "idle", claims |-> NoClaims, err |-> "nil", first |-> "nil", elapsed |-> 0,
     gotKey |-> FALSE, hadActive |-> FALSE, cause |-> "",
     token |-> EmptyToken, keyID |-> "", reterr |-> "nil"]

\* SignClaims is called: the first activeKeySet(); with the keyset it signs and
\* returns, without it it enters the retry loop under the 5 s context
SignClaimsCall(claims) ==
    /\ running
    /\ sc.pc \in {"idle", "done"}
    /\ LET a == activeKeySet(metas, keyring)
           s == signWithKeyset(a.keyset, claims, issuer)
       IN sc' = IF a.err = "nil"
                THEN [IdleCall EXCEPT !.pc = "done", !.claims = s.claims,
                                      !.hadActive = TRUE,
                                      !.token = s.token, !.keyID = s.keyID]
                ELSE [IdleCall EXCEPT !.pc = "wait", !.claims = claims, !.err = a.err,
                                      !.first = a.err,
                                      !.hadActive = (ActiveRootKeyMeta(metas) # {})]
    /\ UNCHANGED <<metas, created, keyring, files, running, shutdown, enc, added, issuer, booted,
                 krr, peers, dec, ak, edits,
                 ver, configs, providerConfigs, lock, th>>

\* SignClaims is called while the active keyset is there
SignClaimsDirect(claims) ==
    /\ activeKeySet(metas, keyring).err = "nil"
    /\ SignClaimsCall(claims)

\* a context for the wait that carries the deadline only
SignCtxDeadlineOnly == sc.elapsed >= SignTimeoutMs

\* ctx.Done() of the context SignClaims waits under
SignCtxDone == shutdown \/ sc.elapsed >= SignTimeoutMs

\* the default case of the select: sleep, look the active keyset up again; the
\* break leaves the select only, so the loop goes on
SignClaimsPoll ==
    /\ running
    /\ sc.pc = "wait"
    /\ ~SignCtxDone
    /\ LET a == activeKeySet(metas, keyring)
       IN sc' = [sc EXCEPT !.elapsed = sc.elapsed + SignSleepMs,
                           !.err = a.err,
                           !.gotKey = sc.gotKey \/ a.err = "nil",
                           !.hadActive = (ActiveRootKeyMeta(metas) # {})]
    /\ UNCHANGED <<metas, created, keyring, files, running, shutdown, enc, added, issuer, booted,
                 krr, peers, dec, ak, edits,
                 ver, configs, providerConfigs, lock, th>>

\* the ctx.Done() case of the select: return "", "", err
SignClaimsCtxDone ==
    /\ running
    /\ sc.pc = "wait"
    /\ SignCtxDone
    /\ sc' = [sc EXCEPT !.pc = "done", !.token = EmptyToken, !.keyID = "",
                        !.reterr = sc.err, !.elapsed = 0,
                        !.cause = IF shutdown THEN "shutdown" ELSE "deadline"]
    /\ UNCHANGED <<metas, created, keyring, files, running, shutdown, enc, added, issuer, booted,
                 krr, peers, dec, ak, edits,
                 ver, configs, providerConfigs, lock, th>>

\* the calls a goroutine makes
Ops == {"Encrypt", "Decrypt", "VerifyClaim", "GetPublicKey", "GetKey", "AddKey", "RemoveKey"}

\* AddKey that takes the lock for the whole call, the save included
LockSpanWholeCall(op) ==
    [mode |-> IF op \in {"AddKey", "RemoveKey", "GetPublicKey", "VerifyClaim"}
              THEN "Lock" ELSE "RLock",
     save |-> IF op = "AddKey" THEN "locked" ELSE "none"]

\* how a call takes e.lock: Lock or RLock, and for AddKey, whose lock is taken
\* and released inside addCipher, that the save comes after the unlock
LockSpan(op) ==
    [mode |-> IF op \in {"AddKey", "RemoveKey", "GetPublicKey", "VerifyClaim"}
              THEN "Lock" ELSE "RLock",
     save |-> IF op = "AddKey" THEN "unlocked" ELSE "none"]

\* goroutine g enters a call and comes to its e.lock.Lock() or e.lock.RLock()
GoCall(g, op, keyID) ==
    /\ running
    /\ th[g].pc = "idle"
    /\ op \in {"AddKey", "RemoveKey"} => keyID \in DOMAIN created
    /\ op \notin {"AddKey", "RemoveKey"} => keyID = ""
    /\ th' = [th EXCEPT ![g] = [op |-> op, pc |-> "lock", keyID |-> keyID,
                                rootKey |-> IF op = "AddKey" THEN created[keyID]
                                            ELSE NoRootKey]]
    /\ UNCHANGED <<metas, created, keyring, files, running, shutdown, enc, sc, added, issuer,
                 booted, krr, peers, dec, ak, edits, ver, configs, providerConfigs, lock>>

\* goroutine g enters AddKey(rootKey) with any root key a caller hands in
GoCallAddKey(g, rootKey) ==
    /\ running
    /\ th[g].pc = "idle"
    /\ th' = [th EXCEPT ![g] = [op |-> "AddKey", pc |-> "lock",
                                keyID |-> rootKey.Meta.KeyID, rootKey |-> rootKey]]
    /\ UNCHANGED <<metas, created, keyring, files, running, shutdown, enc, sc, added, issuer,
                 booted, krr, peers, dec, ak, edits, ver, configs, providerConfigs, lock>>

\* sync.RWMutex: Lock returns when no goroutine holds the lock, RLock when no
\* writer holds it
GoLock(g) ==
    /\ th[g].pc = "lock"
    /\ lock.writer = ""
    /\ IF LockSpan(th[g].op).mode = "Lock"
       THEN /\ lock.readers = {}
            /\ lock' = [lock EXCEPT !.writer = g]
       ELSE lock' = [lock EXCEPT !.readers = lock.readers \cup {g}]
    /\ th' = [th EXCEPT ![g].pc = "held"]
    /\ UNCHANGED <<metas, created, keyring, files, running, shutdown, enc, sc, added, issuer,
                 booted, krr, peers, dec, ak, edits, ver, configs, providerConfigs>>

\* the body under the lock and the deferred Unlock or RUnlock: AddKey's
\* addCipher puts the keyset in the keyring, RemoveKey deletes it; AddKey goes
\* on to its save
GoUnlock(g) ==
    /\ th[g].pc = "held"
    /\ LockSpan(th[g].op).save # "locked"
    /\ keyring' = IF th[g].op = "AddKey"
                  THEN addCipher(keyring, th[g].rootKey).ring
                  ELSE IF th[g].op = "RemoveKey"
                  THEN removeKey(keyring, th[g].keyID).ring
                  ELSE keyring
    /\ lock' = [writer |-> IF lock.writer = g THEN "" ELSE lock.writer,
                readers |-> lock.readers \ {g}]
    /\ th' = [th EXCEPT ![g] = IF LockSpan(th[g].op).save = "unlocked"
                               THEN [th[g] EXCEPT !.pc = "save"]
                               ELSE NoCall]
    /\ booted' = IF th[g].op \in {"AddKey", "RemoveKey"} THEN FALSE ELSE booted
    /\ UNCHANGED <<metas, created, files, running, shutdown, enc, sc, added, issuer,
                 krr, peers, dec, ak, edits, ver, configs, providerConfigs>>

\* AddKey's saveKeyToStore: the wrapper files are written
GoSave(g, kek) ==
    /\ th[g].pc = IF LockSpan(th[g].op).save = "locked" THEN "held" ELSE "save"
    /\ LockSpan(th[g].op).save # "none"
    /\ files' = saveKeyToStore(files, th[g].rootKey, kek, TRUE).files
    /\ keyring' = IF LockSpan(th[g].op).save = "locked"
                  THEN addCipher(keyring, th[g].rootKey).ring
                  ELSE keyring
    /\ lock' = IF LockSpan(th[g].op).save = "locked" THEN Unlocked ELSE lock
    /\ th' = [th EXCEPT ![g] = NoCall]
    /\ booted' = FALSE
    /\ UNCHANGED <<metas, created, running, shutdown, enc, sc, added, issuer,
                 krr, peers, dec, ak, edits, ver, configs, providerConfigs>>

\* the server's shutdown context is cancelled
Shutdown ==
    /\ running
    /\ ~shutdown
    /\ shutdown' = TRUE
    /\ UNCHANGED <<metas, created, keyring, files, running, enc, sc, added, issuer, booted,
                 krr, peers, dec, ak, edits,
                 ver, configs, providerConfigs, lock, th>>

\* stop(): the replicator's own context is cancelled
KrrStop ==
    /\ running
    /\ krr.ctx = "live"
    /\ krr' = [krr EXCEPT !.ctx = "done"]
    /\ UNCHANGED <<metas, created, keyring, files, running, shutdown, enc, sc, added,
                   issuer, booted, peers, dec, ak, edits,
                   ver, configs, providerConfigs, lock, th>>

-----------------------------------------------------------------------------
(* The keystore directory under other hands: an operator's edits, and a *)
(* crash in the middle of a write                                        *)

\* an operator sets the Provider field of a key file
HandEditProvider(path, provider) ==
    /\ edits < MaxEdits
    /\ path \in DOMAIN files
    /\ files[path].valid
    /\ files[path].w.Provider # provider
    /\ files' = [files EXCEPT ![path].w.Provider = provider]
    /\ edits' = edits + 1
    /\ booted' = FALSE
    /\ UNCHANGED <<metas, created, keyring, running, shutdown, enc, sc, added, issuer,
                   krr, peers, dec, ak,
                   ver, configs, providerConfigs, lock, th>>

\* an operator sets the KeyEncryptionKey field of a key file
HandEditKEK(path, kek) ==
    /\ edits < MaxEdits
    /\ path \in DOMAIN files
    /\ files[path].valid
    /\ files[path].w.KeyEncryptionKey # kek
    /\ files' = [files EXCEPT ![path].w.KeyEncryptionKey = kek]
    /\ edits' = edits + 1
    /\ booted' = FALSE
    /\ UNCHANGED <<metas, created, keyring, running, shutdown, enc, sc, added, issuer,
                   krr, peers, dec, ak,
                   ver, configs, providerConfigs, lock, th>>

\* an operator renames a key file: another prefix, the same extension
HandRename(path, prefix) ==
    /\ edits < MaxEdits
    /\ path \in DOMAIN files
    /\ prefix # path[1]
    /\ (<<prefix>> \o Tail(path)) \notin DOMAIN files
    /\ files' = MapPut(MapDelete(files, path), <<prefix>> \o Tail(path), files[path])
    /\ edits' = edits + 1
    /\ booted' = FALSE
    /\ UNCHANGED <<metas, created, keyring, running, shutdown, enc, sc, added, issuer,
                   krr, peers, dec, ak,
                   ver, configs, providerConfigs, lock, th>>

\* what os.WriteFile leaves when the process dies between its open (O_TRUNC)
\* and the end of its write
TornFile == [valid |-> FALSE, w |-> NoWrapper]

\* AddKey(rootKey) when the process dies in the os.WriteFile of provider n:
\* the files of the providers before n are written
AddKeyCrash(k, kek, kmsOk, n) ==
    /\ running
    /\ k \in DOMAIN created
    /\ metas[k] # "none"
    /\ n \in 1..Len(created[k].Meta.KEKProviders)
    /\ addCipher(keyring, created[k]).err = "nil"
    /\ LET providers == created[k].Meta.KEKProviders
           before == [created[k] EXCEPT !.Meta.KEKProviders = SubSeq(providers, 1, n - 1)]
           s == saveKeyToStore(files, before, kek, kmsOk)
       IN /\ s.err = "nil"
          /\ encryptDEK(created[k], providers[n], kek, kmsOk).err = "nil"
          /\ files' = MapPut(s.files, KeyFilePath(k, providers[n]), TornFile)
    /\ running' = FALSE
    /\ keyring' = EmptyMap
    /\ booted' = FALSE
    /\ ak' = AkNone
    /\ UNCHANGED <<metas, created, shutdown, enc, sc, added, issuer, krr, peers, dec,
                   edits,
                   ver, configs, providerConfigs, lock, th>>

-----------------------------------------------------------------------------
(* The KeyringReplicator goroutine *)

\* GetKey that returns the RSA key but not the key material
GetKeyWithoutMaterial(ring, keyID) ==
    LET ks == keysetByIDLocked(ring, keyID)
    IN IF ks.err # "nil"
       THEN [Key |-> "", RSAKey |-> "", err |-> ks.err]
       ELSE [Key |-> "", RSAKey |-> ks.keyset.rootKey.RSAKey, err |-> "nil"]

\* GetKey(keyID)
GetKey(ring, keyID) ==
    LET ks == keysetByIDLocked(ring, keyID)
    IN IF ks.err # "nil"
       THEN [Key |-> "", RSAKey |-> "", err |-> ks.err]
       ELSE [Key |-> ks.keyset.rootKey.Key, RSAKey |-> ks.keyset.rootKey.RSAKey,
             err |-> "nil"]

\* store.RootKeyMetas(nil): the key IDs of the table in the iterator's order
RootKeyMetas(ms) == SelectSeq(SubSeq(UUIDs, 1, NKeys), LAMBDA k : ms[k] # "none")

\* the metadata record of key keyID that the iterator yields; ModifyIndex is
\* the log index that wrote the record last
RootKeyMeta(keyID) == [KeyID |-> keyID, ModifyIndex |-> KeyIndex(keyID)]

\* every server is reachable
AllUp == [i \in 1..Len(Servers) |-> TRUE]

\* the peers (positions in Servers) in the order of Servers
PeersInOrder == [i \in 1..(Len(Servers) - 1) |-> i + 1]

\* the answer of server i to Keyring.Get: an RPC error when it cannot be
\* reached, else the key when it holds it ("" is getResp.Key == nil)
KeyringGet(ps, up, i, keyID) ==
    IF ~up[i]
    THEN [Key |-> "", err |-> "rpc-error"]
    ELSE [Key |-> IF keyID \in ps[i] THEN keyID ELSE "", err |-> "nil"]

\* replicateKey asks every peer, whatever the earlier ones answered
RECURSIVE askPeersAll(_, _, _, _, _, _)
askPeersAll(ps, up, getReq, order, i, acc) ==
    IF i > Len(order)
    THEN acc
    ELSE LET a == KeyringGet(ps, up, order[i], getReq.KeyID)
             sent == Append(acc.reqs, [to |-> Servers[order[i]], req |-> getReq, resp |-> a])
             key == IF a.err = "nil" /\ a.Key # "" THEN a.Key ELSE acc.Key
         IN askPeersAll(ps, up, getReq, order, i + 1,
                        [reqs |-> sent, Key |-> key, err |-> a.err])

\* the loop of replicateKey over getAllPeers(), from the i-th peer of order
\* on: forwardServer fills getResp; the loop breaks at the first answer that
\* is no error and has a key
RECURSIVE askPeers(_, _, _, _, _, _)
askPeers(ps, up, getReq, order, i, acc) ==
    IF i > Len(order)
    THEN acc
    ELSE LET a == KeyringGet(ps, up, order[i], getReq.KeyID)
             sent == Append(acc.reqs, [to |-> Servers[order[i]], req |-> getReq, resp |-> a])
             key == IF a.err = "nil" THEN a.Key ELSE acc.Key
         IN IF a.err = "nil" /\ key # ""
            THEN [reqs |-> sent, Key |-> key, err |-> a.err]
            ELSE askPeers(ps, up, getReq, order, i + 1,
                          [reqs |-> sent, Key |-> key, err |-> a.err])

\* replicateKey that never asks a peer
replicateKeyLeaderOnly(ps, up, order, keyMeta) ==
    LET getReq == [KeyID |-> keyMeta.KeyID, MinQueryIndex |-> keyMeta.ModifyIndex - 1,
                   AllowStale |-> FALSE]
        a == KeyringGet(ps, up, 1, keyMeta.KeyID)
    IN [reqs |-> <<[to |-> Servers[1], req |-> getReq, resp |-> a]>>, Key |-> a.Key,
        err |-> IF a.Key = "" THEN "no-peer-has-key" ELSE "nil"]

\* replicateKey that goes on asking after a peer has answered with the key
replicateKeyAskAll(ps, up, order, keyMeta) ==
    LET getReq == [KeyID |-> keyMeta.KeyID, MinQueryIndex |-> keyMeta.ModifyIndex - 1,
                   AllowStale |-> FALSE]
        a == KeyringGet(ps, up, 1, keyMeta.KeyID)
        first == [reqs |-> <<[to |-> Servers[1], req |-> getReq, resp |-> a]>>,
                  Key |-> a.Key, err |-> a.err]
    IN IF a.err # "nil" \/ a.Key = ""
       THEN LET p == askPeersAll(ps, up, [getReq EXCEPT !.AllowStale = TRUE], order, 1, first)
            IN [p EXCEPT !.err = IF p.Key = "" THEN "no-peer-has-key" ELSE "nil"]
       ELSE first

\* replicateKey up to its AddKey: the requests it sends with their answers,
\* the key it ends with ("" is getResp.Key == nil) and the error it returns
\* when it ends without one
replicateKeyFetch(ps, up, order, keyMeta) ==
    LET getReq == [KeyID |-> keyMeta.KeyID, MinQueryIndex |-> keyMeta.ModifyIndex - 1,
                   AllowStale |-> FALSE]
        a == KeyringGet(ps, up, 1, keyMeta.KeyID)
        first == [reqs |-> <<[to |-> Servers[1], req |-> getReq, resp |-> a]>>,
                  Key |-> a.Key, err |-> a.err]
    IN IF a.err # "nil" \/ a.Key = ""
       THEN LET p == askPeers(ps, up, [getReq EXCEPT !.AllowStale = TRUE], order, 1, first)
            IN [p EXCEPT !.err = IF p.Key = "" THEN "no-peer-has-key" ELSE "nil"]
       ELSE first

\* the select of run finds no context done: a pass over the state store begins
KrrScan ==
    /\ running
    /\ krr.pc = "idle"
    /\ ~shutdown
    /\ krr.ctx = "live"
    /\ krr' = [krr EXCEPT !.pc = "iter", !.iter = RootKeyMetas(metas)]
    /\ UNCHANGED <<metas, created, keyring, files, running, shutdown, enc, sc, added,
                   issuer, booted, peers, dec, ak, edits,
                   ver, configs, providerConfigs, lock, th>>

\* run that watches srv.shutdownCtx only
KrrExitOnShutdownOnly ==
    /\ running
    /\ krr.pc = "idle"
    /\ shutdown
    /\ krr' = [krr EXCEPT !.pc = "exited"]
    /\ UNCHANGED <<metas, created, keyring, files, running, shutdown, enc, sc, added,
                   issuer, booted, peers, dec, ak, edits,
                   ver, configs, providerConfigs, lock, th>>

\* the select of run finds srv.shutdownCtx or its own ctx done: the goroutine
\* returns
KrrExit ==
    /\ running
    /\ krr.pc = "idle"
    /\ shutdown \/ krr.ctx = "done"
    /\ krr' = [krr EXCEPT !.pc = "exited"]
    /\ UNCHANGED <<metas, created, keyring, files, running, shutdown, enc, sc, added,
                   issuer, booted, peers, dec, ak, edits,
                   ver, configs, providerConfigs, lock, th>>

\* iter.Next(): the end of the pass, a key the keyring has (skipped), or a
\* key to replicate
KrrNext ==
    /\ running
    /\ krr.pc = "iter"
    /\ krr' = IF krr.iter = <<>>
              THEN [KrrIdle EXCEPT !.ctx = krr.ctx]
              ELSE LET k == Head(krr.iter)
                       g == GetKey(keyring, k)
                   IN IF g.err = "nil" /\ g.Key # ""
                      THEN [KrrIdle EXCEPT !.pc = "iter", !.iter = Tail(krr.iter),
                                           !.ctx = krr.ctx]
                      ELSE [KrrIdle EXCEPT !.iter = Tail(krr.iter), !.pc = "fetch",
                                           !.keyID = k, !.ctx = krr.ctx]
    /\ UNCHANGED <<metas, created, keyring, files, running, shutdown, enc, sc, added,
                   issuer, booted, peers, dec, ak, edits,
                   ver, configs, providerConfigs, lock, th>>

\* replicateKey up to the answer, with the servers that can be reached and the
\* order getAllPeers yields the peers in: without a key it returns an error,
\* which run logs before it goes on with the next key
KrrFetchVia(up, order) ==
    /\ running
    /\ krr.pc = "fetch"
    /\ LET f == replicateKeyFetch(peers, up, order, RootKeyMeta(krr.keyID))
       IN krr' = IF f.Key = ""
                 THEN [krr EXCEPT !.pc = "iter", !.reqs = f.reqs, !.rerr = f.err]
                 ELSE [krr EXCEPT !.pc = "add", !.resp = f.Key, !.reqs = f.reqs]
    /\ UNCHANGED <<metas, created, keyring, files, running, shutdown, enc, sc, added,
                   issuer, booted, peers, dec, ak, edits,
                   ver, configs, providerConfigs, lock, th>>

\* replicateKey up to the answer when the leader answers with a root key of
\* its choice: getResp.Key is what the reply carries
KrrFetchReply(key) ==
    /\ running
    /\ krr.pc = "fetch"
    /\ key \in DOMAIN created
    /\ krr' = [krr EXCEPT !.pc = "add", !.resp = key,
                          !.reqs = <<[to |-> Servers[1],
                                      req |-> [KeyID |-> krr.keyID,
                                               MinQueryIndex |->
                                                   RootKeyMeta(krr.keyID).ModifyIndex - 1,
                                               AllowStale |-> FALSE],
                                      resp |-> [Key |-> key, err |-> "nil"]]>>]
    /\ UNCHANGED <<metas, created, keyring, files, running, shutdown, enc, sc, added,
                   issuer, booted, peers, dec, ak, edits,
                   ver, configs, providerConfigs, lock, th>>

\* replicateKey up to the answer in a cluster whose servers all answer
KrrFetch == KrrFetchVia(AllUp, PeersInOrder)

\* replicateKey's krr.encrypter.AddKey(getResp.Key)
KrrAddKey(kek, kmsOk) ==
    /\ running
    /\ krr.pc = "add"
    /\ addKeyStep(krr.resp, created[krr.resp], kek, kmsOk)
    /\ krr' = [krr EXCEPT !.pc = "iter", !.adds = Append(krr.adds, krr.resp),
                          !.rerr = IF addKeyResult(keyring, files, created[krr.resp],
                                                   kek, kmsOk).err = "nil"
                                   THEN "nil" ELSE "add-key-failed"]
    /\ UNCHANGED <<metas, created, shutdown, enc, sc, issuer, peers, dec, edits,
                 ver, configs, providerConfigs, lock, th>>

-----------------------------------------------------------------------------
(* Specifications *)

AeadOnly == {<<AeadProvider>>}
ProviderLists ==
    {<<AeadProvider>>, <<AwsProvider>>, <<DefaultProvider>>,
     <<AeadProvider, AwsProvider>>, <<AwsProvider, AeadProvider>>}

RootKeys(k, deks, rsas, provs) ==
    {RootKeyOf(k, d, r, p) : d \in deks, r \in rsas, p \in provs}

InitWith(issuers) ==
    /\ metas = [k \in KeyIDs |-> "none"]
    /\ created = EmptyMap
    /\ keyring = EmptyMap
    /\ files = EmptyMap
    /\ running = TRUE
    /\ shutdown = FALSE
    /\ enc = NoEnc
    /\ sc = IdleCall
    /\ added = EmptyMap
    /\ issuer \in issuers
    /\ booted = TRUE
    /\ krr = KrrIdle
    /\ peers = [i \in 1..Len(Servers) |-> {}]
    /\ dec = NoDec
    /\ ak = AkNone
    /\ edits = 0
    /\ ver = NoVer
    /\ configs = <<>>
    /\ providerConfigs = NilMap
    /\ lock = Unlocked
    /\ th = [g \in Goroutines |-> NoCall]

\* encryption, signing and rotation on one server whose keys are wrapped by
\* the built-in provider
Init == InitWith({"nomad-issuer"})

Next ==
    \/ \E k \in KeyIDs : \E r \in RootKeys(k, DEKs, RSAKeys, AeadOnly) : LogRotate(k, r)
    \/ \E k \in KeyIDs : LogActivate(k)
    \/ \E k \in KeyIDs : \E kek \in KEKs : AddKey(k, kek, TRUE)
    \/ \E k \in KeyIDs : RemoveKey(k)
    \/ \E c \in Cleartexts : \E n \in RandomBytes(NonceSize) : EncryptCall(c, n)
    \/ \E c \in ClaimsIn : SignClaimsDirect(c)

Spec == Init /\ [][Next]_vars

\* SignClaims and its retry loop around a rotation: the metadata of a new
\* active key is committed, its material arrives (AddKey) or not
InitSign == InitWith({""})

NextSign ==
    \/ \E k \in KeyIDs : \E r \in RootKeys(k, DEKs, RSAKeys, AeadOnly) : LogRotate(k, r)
    \/ \E k \in KeyIDs : \E kek \in KEKs : AddKey(k, kek, TRUE)
    \/ \E c \in {[Subject |-> "s1", Issuer |-> ""]} : SignClaimsCall(c)
    \/ SignClaimsPoll
    \/ SignClaimsCtxDone
    \/ Shutdown

SpecSign == InitSign /\ [][NextSign]_vars

\* the keystore across restarts: keys wrapped by the built-in provider, by an
\* external KMS that may fail, or by both
InitStore == InitWith({"nomad-issuer"})

NextStore ==
    \/ \E k \in KeyIDs : \E r \in RootKeys(k, DEKs, RSAKeys, ProviderLists) :
            LogRotate(k, r)
    \/ \E k \in KeyIDs : LogDeprecate(k)
    \/ \E k \in KeyIDs : LogDelete(k)
    \/ \E k \in KeyIDs : \E kek \in KEKs : \E kmsOk \in BOOLEAN : AddKey(k, kek, kmsOk)
    \/ \E k \in KeyIDs : RemoveKey(k)
    \/ NewEncrypter(TRUE)

SpecStore == InitStore /\ [][NextStore]_vars

\* the replicator on a node that starts with an empty keystore and keyring
\* while the log holds n keys, each held by any of the other servers
LogOf(n) ==
    [k \in KeyIDs |-> IF KeyIndex(k) < n THEN "inactive"
                      ELSE IF KeyIndex(k) = n THEN "active" ELSE "none"]

InitRepl ==
    /\ \E n \in 1..NKeys : \E p \in {<<AeadProvider>>, <<AwsProvider>>} :
          /\ metas = LogOf(n)
          /\ created = [k \in {x \in KeyIDs : KeyIndex(x) <= n} |->
                            RootKeyOf(k, "dek1", "", p)]
    /\ peers \in [1..Len(Servers) -> SUBSET DOMAIN created]
    /\ \A i \in 3..Len(Servers) : peers[i] = {}     \* the last peer has joined just now
    /\ keyring = EmptyMap
    /\ files = EmptyMap
    /\ running = TRUE
    /\ shutdown = FALSE
    /\ enc = NoEnc
    /\ sc = IdleCall
    /\ added = EmptyMap
    /\ issuer = "nomad-issuer"
    /\ booted = TRUE
    /\ krr = KrrIdle
    /\ dec = NoDec
    /\ ak = AkNone
    /\ edits = 0
    /\ ver = NoVer
    /\ configs = <<>>
    /\ providerConfigs = NilMap
    /\ lock = Unlocked
    /\ th = [g \in Goroutines |-> NoCall]

NextRepl ==
    \/ KrrScan
    \/ KrrExit
    \/ KrrNext
    \/ KrrFetch
    \/ \E kek \in KEKs : \E kmsOk \in BOOLEAN : KrrAddKey(kek, kmsOk)
    \/ \E k \in KeyIDs : LogDelete(k)
    \/ Shutdown

\* the goroutine is scheduled again and again: each of its steps, once it is
\* the next one, is taken
SpecRepl ==
    /\ InitRepl
    /\ [][NextRepl]_vars
    /\ WF_vars(KrrScan)
    /\ WF_vars(KrrNext)
    /\ WF_vars(KrrFetch)
    /\ WF_vars(\E kek \in KEKs : \E kmsOk \in BOOLEAN : KrrAddKey(kek, kmsOk))

\* the replicator while the server may shut down and stop() may be called:
\* the exit, too, is taken once the select finds a context done
SpecStop ==
    /\ InitRepl
    /\ [][\/ KrrScan
          \/ KrrExit
          \/ KrrNext
          \/ KrrFetch
          \/ \E kek \in KEKs : \E kmsOk \in BOOLEAN : KrrAddKey(kek, kmsOk)
          \/ Shutdown
          \/ KrrStop]_vars
    /\ WF_vars(KrrScan)
    /\ WF_vars(KrrExit)
    /\ WF_vars(KrrNext)
    /\ WF_vars(KrrFetch)
    /\ WF_vars(\E kek \in KEKs : \E kmsOk \in BOOLEAN : KrrAddKey(kek, kmsOk))

\* AddKey with good and bad root keys while the log rotates and the process
\* restarts
SpecAdd ==
    /\ Init
    /\ [][\/ \E k \in KeyIDs : \E r \in RootKeys(k, DEKs, RSAKeys, AeadOnly) :
                LogRotate(k, r)
          \/ \E k \in KeyIDs : \E kek \in KEKs : AddKey(k, kek, TRUE)
          \/ \E k \in KeyIDs :
                \E bad \in BadRootKeys(RootKeyOf(k, "dek1", "", <<AeadProvider>>)) :
                   \E kek \in KEKs : AddKeyOf(bad, kek)
          \/ \E k \in KeyIDs : RemoveKey(k)
          \/ NewEncrypter(TRUE)]_vars

\* the keystore under an operator's hands: keys are added, a key file is
\* edited or renamed, and the process restarts
LoadProviderLists == {<<AeadProvider>>, <<AwsProvider>>}

FilePaths == {AllPaths[i] : i \in 1..Len(AllPaths)}

InitLoad == InitWith({"nomad-issuer"})

NextLoad ==
    \/ \E k \in KeyIDs : \E r \in RootKeys(k, DEKs, {""}, LoadProviderLists) :
            LogRotate(k, r)
    \/ \E k \in KeyIDs : \E kek \in KEKs : AddKey(k, kek, TRUE)
    \/ \E path \in FilePaths : HandEditProvider(path, "nonesuch")
    \/ \E path \in FilePaths : \E kek \in KEKs \cup {""} : HandEditKEK(path, kek)
    \/ \E path \in FilePaths : \E prefix \in KeyIDs \cup {NotAUUID} :
            HandRename(path, prefix)
    \/ NewEncrypter(TRUE)

SpecLoad == InitLoad /\ [][NextLoad]_vars

\* saves that fail or are cut short: a KMS that does not answer, a provider
\* type without a wrapper, a crash in the middle of a write
SaveProviderLists ==
    {<<AwsProvider>>, <<AwsProvider, AeadProvider>>, <<AeadProvider, NonesuchProvider>>}

InitSave == InitWith({"nomad-issuer"})

NextSave ==
    \/ \E k \in KeyIDs : \E r \in RootKeys(k, DEKs, {""}, SaveProviderLists) :
            LogRotate(k, r)
    \/ \E k \in KeyIDs : \E kek \in KEKs : \E kmsOk \in BOOLEAN : AddKey(k, kek, kmsOk)
    \/ \E k \in KeyIDs : \E kek \in KEKs : \E n \in {1, 2} : AddKeyCrash(k, kek, TRUE, n)
    \/ NewEncrypter(TRUE)

SpecSave == InitSave /\ [][NextSave]_vars

\* callers of Decrypt: what Encrypt returned, whole or cut short, under the
\* key ID it returned or another
CutLengths == {0, NonceSize - 1, NonceSize, NonceSize + MaxClearLen + TagSize}

\* the first n bytes of s, all of s when it has no more
Take(s, n) == SubSeq(s, 1, IF n < Len(s) THEN n ELSE Len(s))

InitDecrypt == InitWith({"nomad-issuer"})

NextDecrypt ==
    \/ \E k \in KeyIDs : \E r \in RootKeys(k, DEKs, {""}, AeadOnly) : LogRotate(k, r)
    \/ \E k \in KeyIDs : \E kek \in KEKs : AddKey(k, kek, TRUE)
    \/ \E c \in Cleartexts : \E n \in RandomBytes(NonceSize) : EncryptCall(c, n)
    \/ \E n \in CutLengths : \E k \in KeyIDs : DecryptCall(Take(enc.ciphertext, n), k)

SpecDecrypt == InitDecrypt /\ [][NextDecrypt]_vars

\* verifiers: the tokens SignClaims can have issued under any key of the log,
\* as issued or with the header's key ID rewritten, on a node whose keyring
\* gains and loses keys
SignedTokens ==
    {signWithKeyset(addCipher(EmptyMap, r).ring[r.Meta.KeyID],
                    [Subject |-> "s1", Issuer |-> ""], "nomad-issuer").token :
        r \in UNION {RootKeys(k, DEKs, RSAKeys, AeadOnly) : k \in KeyIDs}}

Tokens ==
    SignedTokens
    \cup {<<[t[1] EXCEPT !.kid = k], t[2], t[3]>> : t \in SignedTokens, k \in KeyIDs}

InitVerify == InitWith({"nomad-issuer"})

NextVerify ==
    \/ \E k \in KeyIDs : \E r \in RootKeys(k, DEKs, RSAKeys, AeadOnly) : LogRotate(k, r)
    \/ \E k \in KeyIDs : \E kek \in KEKs : AddKey(k, kek, TRUE)
    \/ \E k \in KeyIDs : RemoveKey(k)
    \/ \E t \in Tokens : VerifyCall(t)

SpecVerify == InitVerify /\ [][NextVerify]_vars

\* a server whose configuration gains wrapping providers between restarts
AwsConfig == [Provider |-> "awskms", Name |-> "", Config |-> "cfgA"]
TransitConfig == [Provider |-> "transit", Name |-> "t1", Config |-> "cfgT"]
ConfigLists == {<<>>, <<AwsConfig>>, <<AwsConfig, TransitConfig>>}

InitConfig == InitWith({"nomad-issuer"})

NextConfig ==
    \/ \E k \in KeyIDs : \E r \in RootKeys(k, DEKs, RSAKeys, LoadProviderLists) : LogRotate(k, r)
    \/ \E k \in KeyIDs : \E kek \in KEKs : AddKey(k, kek, TRUE)
    \/ \E cfgs \in ConfigLists : Reconfigure(cfgs)
    \/ NewEncrypter(TRUE)

SpecConfig == InitConfig /\ [][NextConfig]_vars

\* one fetch after another in a cluster where any server may be out of reach
\* and getAllPeers yields the peers in any order
PeerOrders ==
    {o \in [1..(Len(Servers) - 1) -> 2..Len(Servers)] :
        \A i, j \in DOMAIN o : i # j => o[i] # o[j]}

InitFetch ==
    /\ \E n \in 1..NKeys :
          /\ metas = LogOf(n)
          /\ created = [k \in {x \in KeyIDs : KeyIndex(x) <= n} |->
                            RootKeyOf(k, "dek1", "", <<AeadProvider>>)]
    /\ peers \in [1..Len(Servers) -> SUBSET DOMAIN created]
    /\ keyring = EmptyMap
    /\ files = EmptyMap
    /\ running = TRUE
    /\ shutdown = FALSE
    /\ enc = NoEnc
    /\ sc = IdleCall
    /\ added = EmptyMap
    /\ issuer = "nomad-issuer"
    /\ booted = TRUE
    /\ krr = KrrIdle
    /\ dec = NoDec
    /\ ak = AkNone
    /\ edits = 0
    /\ ver = NoVer
    /\ configs = <<>>
    /\ providerConfigs = NilMap
    /\ lock = Unlocked
    /\ th = [g \in Goroutines |-> NoCall]

NextFetch ==
    \/ KrrScan
    \/ KrrNext
    \/ \E up \in [1..Len(Servers) -> BOOLEAN] : \E order \in PeerOrders :
            KrrFetchVia(up, order)
    \/ \E kek \in KEKs : KrrAddKey(kek, TRUE)

SpecFetch == InitFetch /\ [][NextFetch]_vars

\* the replicator in a cluster whose leader answers Keyring.Get with any root
\* key it holds
SpecReply ==
    /\ InitFetch
    /\ [][\/ KrrScan
          \/ KrrNext
          \/ \E key \in KeyIDs : KrrFetchReply(key)
          \/ \E kek \in KEKs : KrrAddKey(kek, TRUE)]_vars

\* encryption and signing while the log rotates and re-activates keys and the
\* node's keyring follows
InitFresh == InitWith({"nomad-issuer"})

NextFresh ==
    \/ \E k \in KeyIDs : \E r \in RootKeys(k, DEKs, {""}, AeadOnly) : LogRotate(k, r)
    \/ \E k \in KeyIDs : LogActivate(k)
    \/ \E k \in KeyIDs : \E kek \in KEKs : AddKey(k, kek, TRUE)
    \/ \E n \in RandomBytes(NonceSize) : EncryptCall(<<>>, n)
    \/ \E c \in {[Subject |-> "s1", Issuer |-> ""]} : SignClaimsCall(c)
    \/ SignClaimsPoll
    \/ SignClaimsCtxDone

SpecFresh == InitFresh /\ [][NextFresh]_vars

\* goroutines calling into the Encrypter at the same time, on a node whose log
\* has all its keys
InitLock ==
    /\ metas = LogOf(NKeys)
    /\ created = [k \in KeyIDs |-> RootKeyOf(k, "dek1", "", <<AeadProvider>>)]
    /\ peers = [i \in 1..Len(Servers) |-> {}]
    /\ keyring = EmptyMap
    /\ files = EmptyMap
    /\ running = TRUE
    /\ shutdown = FALSE
    /\ enc = NoEnc
    /\ sc = IdleCall
    /\ added = EmptyMap
    /\ issuer = "nomad-issuer"
    /\ booted = TRUE
    /\ krr = KrrIdle
    /\ dec = NoDec
    /\ ak = AkNone
    /\ edits = 0
    /\ ver = NoVer
    /\ configs = <<>>
    /\ providerConfigs = NilMap
    /\ lock = Unlocked
    /\ th = [g \in Goroutines |-> NoCall]

NextLock ==
    \/ \E g \in Goroutines : \E op \in Ops : \E k \in KeyIDs \cup {""} : GoCall(g, op, k)
    \/ \E g \in Goroutines : GoLock(g)
    \/ \E g \in Goroutines : GoUnlock(g)
    \/ \E g \in Goroutines : \E kek \in KEKs : GoSave(g, kek)

SpecLock == InitLock /\ [][NextLock]_vars

\* goroutines that call AddKey at the same time, with root keys that have an
\* RSA key or none
SpecRace ==
    /\ InitLock
    /\ [][\/ \E g \in Goroutines : \E k \in KeyIDs :
                \E r \in RootKeys(k, DEKs, RSAKeys, AeadOnly) : GoCallAddKey(g, r)
          \/ \E g \in Goroutines : GoLock(g)
          \/ \E g \in Goroutines : GoUnlock(g)
          \/ \E g \in Goroutines : \E kek \in KEKs : GoSave(g, kek)]_vars

-----------------------------------------------------------------------------
(* Properties *)

\* C1: in every state where the log's active key is in the keyring, for every
\* cleartext c and nonce, Encrypt(c) = (x, k) implies Decrypt(x, k) = c.
EncryptDecryptRoundTrip ==
    running =>
        \A c \in Cleartexts : \A n \in RandomBytes(NonceSize) :
            LET e == Encrypt(metas, keyring, c, n)
            IN e.err = "nil" =>
                    Decrypt(keyring, e.ciphertext, e.keyID) = [out |-> c, err |-> "nil"]

\* Encrypt has returned a ciphertext of a non-empty cleartext and Decrypt gives
\* the cleartext back
EncryptDecryptRoundTripWitness ==
    /\ running
    /\ enc.err = "nil"
    /\ Len(enc.cleartext) > 0
    /\ Len(enc.ciphertext) = NonceSize + Len(enc.cleartext) + TagSize
    /\ activeKeySet(metas, keyring).err = "nil"
    /\ Decrypt(keyring, enc.ciphertext, enc.keyID) = [out |-> enc.cleartext, err |-> "nil"]

\* the key IDs Decrypt may be given: those of the model and one nobody has
OtherKeyIDs == KeyIDs \cup {"k0"}

\* C4 as stated: a ciphertext Encrypt produced under key ID k fails to decrypt
\* under every other key ID k2 with ciphertext-invalid, and yields no cleartext.
AADBindingEveryKeyID ==
    (running /\ enc.err = "nil") =>
        \A k2 \in OtherKeyIDs \ {enc.keyID} :
            Decrypt(keyring, enc.ciphertext, k2) =
                [out |-> NoBytes, err |-> "ciphertext-invalid"]

\* C4 amended: under another key ID k2 Decrypt yields no cleartext and fails,
\* with ciphertext-invalid when k2 is in the keyring and with no-such-key when
\* it is not.
AADBinding ==
    (running /\ enc.err = "nil") =>
        \A k2 \in OtherKeyIDs \ {enc.keyID} :
            Decrypt(keyring, enc.ciphertext, k2) =
                [out |-> NoBytes,
                 err |-> IF k2 \in DOMAIN keyring THEN "ciphertext-invalid"
                         ELSE "no-such-key"]

\* a ciphertext is refused under another key ID whose keyset has the very same
\* data encryption key: only the additional data tells the two apart
AADBindingWitness ==
    /\ running
    /\ enc.err = "nil"
    /\ \E k2 \in DOMAIN keyring :
          /\ k2 # enc.keyID
          /\ enc.keyID \in DOMAIN keyring
          /\ keyring[k2].cipher = keyring[enc.keyID].cipher
          /\ Decrypt(keyring, enc.ciphertext, enc.keyID).err = "nil"
          /\ Decrypt(keyring, enc.ciphertext, k2).err = "ciphertext-invalid"

\* C5: a ciphertext or token produced under key K decrypts / verifies whenever
\* K is in the keyring, whatever state K's metadata has moved to since.
UseByIDNotByState ==
    running =>
        /\ (enc.err = "nil" /\ enc.keyID \in DOMAIN keyring) =>
                Decrypt(keyring, enc.ciphertext, enc.keyID) =
                    [out |-> enc.cleartext, err |-> "nil"]
        /\ (sc.token # EmptyToken /\ sc.keyID \in DOMAIN keyring) =>
                VerifyClaim(keyring, sc.token) = [claims |-> sc.claims, err |-> "nil"]

\* the key that encrypted and signed has been rotated to inactive and still
\* decrypts and verifies
UseByIDNotByStateWitness ==
    /\ running
    /\ enc.err = "nil"
    /\ sc.token # EmptyToken
    /\ metas[enc.keyID] = "inactive"
    /\ metas[sc.keyID] = "inactive"
    /\ Decrypt(keyring, enc.ciphertext, enc.keyID) = [out |-> enc.cleartext, err |-> "nil"]
    /\ VerifyClaim(keyring, sc.token) = [claims |-> sc.claims, err |-> "nil"]

\* a step in which SignClaims returns
SignClaimsReturns ==
    /\ (\E c \in ClaimsIn : SignClaimsCall(c)) \/ SignClaimsCtxDone
    /\ sc'.pc = "done"

\* C2: a SignClaims call that found the log's active key without material, and
\* saw the material arrive within its 5 s, returns a signed token under that
\* key and no error.
RotationWindowSigns ==
    (/\ sc.pc = "done"
     /\ sc.first = "no-such-key"
     /\ sc.gotKey
     /\ sc.err = "nil"
     /\ sc.cause = "deadline") =>
        /\ sc.reterr = "nil"
        /\ sc.token # EmptyToken
        /\ sc.keyID \in KeyIDs

SignVerifyRoundTrip ==
    [][(SignClaimsReturns /\ sc'.reterr = "nil") =>
            /\ VerifyClaim(keyring', sc'.token) = [claims |-> sc'.claims, err |-> "nil"]
            /\ sc'.token[1].kid = sc'.keyID]_vars

\* C7: after a successful AddKey(r) and a restart, GetPublicKey(r.Meta.KeyID)
\* succeeds with the public key bytes published before the restart.
PublicKeySurvivesRestart ==
    booted =>
        \A k \in DOMAIN added :
            /\ running
            /\ GetPublicKey(keyring, k).err = "nil"
            /\ GetPublicKey(keyring, k).PublicKey = added[k].PublicKey

\* C8: a root key that was saved to the keystore is, after loading the
\* keystore, in the keyring under its key ID with the same metadata, DEK and
\* RSA key.
KeystoreRoundTrip ==
    booted =>
        \A k \in DOMAIN added :
            /\ k \in DOMAIN keyring
            /\ keyring[k].rootKey = added[k].rootKey

\* the wrapper file at path unwraps to a root key
IntactWrapper(path) == loadKeyFromStore(files, path, TRUE).err = "nil"

\* C9: loading restores every key that has at least one intact wrapper file,
\* whichever provider's file that is.
AnyIntactWrapperRestores ==
    booted =>
        \A path \in DOMAIN files :
            IntactWrapper(path) => (running /\ path[1] \in DOMAIN keyring)

\* C10: the key IDs with a wrapper file in the keystore are among the key IDs
\* of the log's metadata table; checked in the states where RemoveKey has run
\* for every key the log has tombstoned, so that a removal still under way is
\* not held against the keystore.
KeystoreWithinLog ==
    (\A k \in KeyIDs : metas[k] = "none" => k \notin DOMAIN keyring) =>
        {path[1] : path \in DOMAIN files} \subseteq {k \in KeyIDs : metas[k] # "none"}

\* C11: with the goroutine scheduled fairly, every key of the log whose
\* material the leader or a peer holds is eventually in the keyring, unless
\* the server shuts down or the log drops the key first.
ReplicatorInstallsHeldKeys ==
    \A k \in KeyIDs :
        (metas[k] # "none" /\ \E i \in 1..Len(Servers) : k \in peers[i])
            ~> (k \in DOMAIN keyring \/ shutdown \/ metas[k] = "none")

\* the replicator has installed a key that only a peer holds, not the leader,
\* and has finished its pass
ReplicatorInstallsHeldKeysWitness ==
    /\ ~shutdown
    /\ krr.pc = "idle"
    /\ \E k \in DOMAIN keyring :
          /\ k \notin peers[1]
          /\ k \in peers[2]
          /\ metas[k] # "none"
          /\ keyring[k].rootKey = created[k]


\* C12: a key file whose Provider field names no known provider type makes
\* the load fail, and its key is not installed.
UnknownProviderFailsLoad ==
    \A path \in DOMAIN files :
        (files[path].valid /\ files[path].w.Provider = "nonesuch") =>
            /\ loadKeyFromStore(files, path, TRUE).err # "nil"
            /\ (booted /\ IsKeyFile(path)) =>
                    (~running /\ path[1] \notin DOMAIN keyring)

\* the key ID in a file's name, the key ID embedded in the file
NamePrefix(path) == path[1]
EmbeddedKeyID(path) == files[path].w.Meta.KeyID

\* the files named <prefix>.nks.json whose prefix is not their embedded key ID
Misnamed(path) ==
    /\ Len(path) = 3
    /\ HasKeystoreSuffix(path)
    /\ files[path].valid
    /\ NamePrefix(path) # EmbeddedKeyID(path)

ExternalProviderWithKEKFailsLoad ==
    \A path \in DOMAIN files :
        (/\ files[path].valid
         /\ files[path].w.Provider \in ExternalProviders
         /\ files[path].w.KeyEncryptionKey # "") =>
            /\ loadKeyFromStore(files, path, TRUE).err # "nil"
            /\ booted => ~running

\* C15: a key file of the built-in AEAD provider with an empty
\* KeyEncryptionKey fails to load, at the construction of its wrapper, and
\* the load that reads it fails.
AeadWithoutKEKFailsLoad ==
    \A path \in DOMAIN files :
        (/\ files[path].valid
         /\ files[path].w.Provider = "aead"
         /\ files[path].w.KeyEncryptionKey = "") =>
            /\ loadKeyFromStore(files, path, TRUE).err = "bad-kek"
            /\ (booted /\ IsKeyFile(path)) => ~running

\* a restart has failed on a key file of the built-in provider whose
\* KeyEncryptionKey was emptied
AeadWithoutKEKFailsLoadWitness ==
    /\ booted
    /\ ~running
    /\ \E path \in DOMAIN files :
          /\ IsKeyFile(path)
          /\ files[path].valid
          /\ files[path].w.Provider = "aead"
          /\ files[path].w.KeyEncryptionKey = ""
          /\ loadKeystore(files, TRUE).err = "bad-kek"

\* C16: when the load of any key file fails, NewEncrypter returns no
\* Encrypter: nothing of the keysets installed from the files walked before
\* is left to any caller.
NoPartialKeyring ==
    booted =>
        (loadKeystore(files, TRUE).err # "nil" => (~running /\ keyring = EmptyMap))

\* a restart has failed after the walk had installed the keyset of an earlier
\* file
NoPartialKeyringWitness ==
    /\ booted
    /\ ~running
    /\ keyring = EmptyMap
    /\ loadKeystore(files, TRUE).err # "nil"
    /\ loadKeystore(files, TRUE).ring # EmptyMap

\* C17: a later load never sees a half-written wrapper file: every key file
\* it reads holds a complete wrapper.
NoTornFiles ==
    booted => \A path \in DOMAIN files : IsKeyFile(path) => files[path].valid

\* the providers of key k whose wrapping fails
FailingProviders(k, kek, kmsOk) ==
    {i \in 1..Len(created[k].Meta.KEKProviders) :
        encryptDEK(created[k], created[k].Meta.KEKProviders[i], kek, kmsOk).err # "nil"}

\* C18: when the wrapping under one of the key's providers fails, AddKey's
\* save returns an error to the caller and writes no file for that provider
\* nor for any later one.
SaveAbortsWithError ==
    [][\A k \in KeyIDs : \A kek \in KEKs : \A kmsOk \in BOOLEAN :
          (AddKey(k, kek, kmsOk) /\ FailingProviders(k, kek, kmsOk) # {}) =>
              /\ running'
              /\ ak'.keyID = k
              /\ ak'.err \notin {"nil", "panic"}
              /\ \A i \in 1..Len(created[k].Meta.KEKProviders) :
                    (\E j \in FailingProviders(k, kek, kmsOk) : j <= i) =>
                        LET path == KeyFilePath(k, created[k].Meta.KEKProviders[i])
                        IN /\ (path \in DOMAIN files') = (path \in DOMAIN files)
                           /\ path \in DOMAIN files => files'[path] = files[path]]_vars

\* the errors of saveKeyToStore
SaveErrors == {"kms-io"}

\* the log's table with only key k, active
OnlyActive(k) == [x \in KeyIDs |-> IF x = k THEN "active" ELSE "none"]

\* C19: after an AddKey whose save failed, the keyset is in the keyring all
\* the same: GetPublicKey, Decrypt and VerifyClaim work for the key.
AddKeyKeepsKeysetOnSaveError ==
    (running /\ ak.err \in SaveErrors) =>
        LET k == ak.keyID
            e == Encrypt(OnlyActive(k), keyring, <<Plain(7)>>, CHOOSE n \in RandomBytes(NonceSize) : TRUE)
            t == signWithKeyset(keyring[k], [Subject |-> "s1", Issuer |-> ""], issuer)
        IN /\ k \in DOMAIN keyring
           /\ keyring[k].rootKey = created[k]
           /\ GetPublicKey(keyring, k).err = "nil"
           /\ e.err = "nil"
           /\ Decrypt(keyring, e.ciphertext, k) = [out |-> <<Plain(7)>>, err |-> "nil"]
           /\ VerifyClaim(keyring, t.token) = [claims |-> t.claims, err |-> "nil"]

\* an AddKey has returned the KMS error of its save, has written no file, and
\* its key is in the keyring
AddKeyKeepsKeysetOnSaveErrorWitness ==
    /\ running
    /\ ak.err = "kms-io"
    /\ ak.keyID \in DOMAIN keyring
    /\ \A path \in DOMAIN files : path[1] # ak.keyID

\* C20: Decrypt of a ciphertext shorter than the nonce, under a key of the
\* keyring, returns the ciphertext-invalid error and no cleartext, and the
\* process goes on.
ShortCiphertextIsInvalid ==
    [][\A n \in CutLengths : \A k \in DOMAIN keyring :
          (DecryptCall(Take(enc.ciphertext, n), k) /\ n < NonceSize) =>
              /\ running'
              /\ dec' = [out |-> NoBytes, err |-> "ciphertext-invalid"]]_vars

\* C21 as stated: an Encrypt that finds no active keyset returns at once, with
\* no ciphertext, no key ID and the not-initialized error, with or without an
\* active record in the log.
EncryptFailsNotInitialized ==
    [][\A c \in Cleartexts : \A n \in RandomBytes(NonceSize) :
          (EncryptCall(c, n) /\ activeKeySet(metas, keyring).err # "nil") =>
              /\ enc'.ciphertext = NoBytes
              /\ enc'.keyID = ""
              /\ enc'.err = "not-initialized"]_vars

\* C21 amended: an Encrypt that finds no active keyset returns at once, with no
\* ciphertext, no key ID and the error of its lookup: not-initialized when the
\* log has no active record, no-such-key when it has one whose material is not
\* in the keyring.
EncryptFailsWithLookupError ==
    [][\A c \in Cleartexts : \A n \in RandomBytes(NonceSize) :
          (EncryptCall(c, n) /\ activeKeySet(metas, keyring).err # "nil") =>
              /\ enc'.ciphertext = NoBytes
              /\ enc'.keyID = ""
              /\ enc'.err = (IF ActiveRootKeyMeta(metas) = {} THEN "not-initialized"
                             ELSE "no-such-key")]_vars

\* an Encrypt has failed on an active record whose material the keyring does
\* not hold
EncryptFailsWithLookupErrorWitness ==
    /\ enc.err = "no-such-key"
    /\ enc.ciphertext = NoBytes
    /\ enc.keyID = ""
    /\ ActiveRootKeyMeta(metas) # {}
    /\ activeKeySet(metas, keyring).err = "no-such-key"

\* C22: VerifyClaim of a token whose header key ID is not in the keyring fails
\* with no-such-key and returns no claims, whoever signed the token.
UnknownKeyIDRejected ==
    [][\A t \in Tokens :
          (VerifyCall(t) /\ t[1].kid \notin DOMAIN keyring) =>
              ver' = [token |-> t, claims |-> NoClaims, err |-> "no-such-key"]]_vars

\* a token signed under a key of the log, its header untouched, was rejected
\* by a node whose keyring does not hold that key
UnknownKeyIDRejectedWitness ==
    /\ ver.token \in SignedTokens
    /\ ver.token[1].kid \in DOMAIN created
    /\ ver.token =
          signWithKeyset(addCipher(EmptyMap, created[ver.token[1].kid]).ring[ver.token[1].kid],
                         [Subject |-> "s1", Issuer |-> ""], issuer).token
    /\ ver.token[1].kid \notin DOMAIN keyring
    /\ ver.err = "no-such-key"
    /\ ver.claims = NoClaims

\* C23: a token SignClaims returned is signed RS256 with the RSA key when the
\* keyset of its key ID has one and EdDSA with the ed25519 key when not, its
\* header carries that key ID, and GetPublicKey of the key ID reports the same
\* algorithm with the matching public key.
SignerMatchesPublicKey ==
    (sc.pc = "done" /\ sc.token # EmptyToken /\ sc.keyID \in DOMAIN keyring) =>
        LET header == sc.token[1]
            ks == keyring[sc.keyID]
            pubKey == GetPublicKey(keyring, sc.keyID)
            hasRSA == ks.rootKey.RSAKey # ""
        IN /\ header.kid = sc.keyID
           /\ header.alg = (IF hasRSA THEN "RS256" ELSE "EdDSA")
           /\ sc.token[3].alg = header.alg
           /\ sc.token[3].key = (IF hasRSA THEN ks.rsaPrivateKey ELSE ks.eddsaPrivateKey)
           /\ pubKey.err = "nil"
           /\ pubKey.KeyID = sc.keyID
           /\ pubKey.Algorithm = header.alg
           /\ pubKey.PublicKey = (IF hasRSA THEN MarshalPKCS1PublicKey(ks.rsaPrivateKey)
                                  ELSE Ed25519Public(ks.eddsaPrivateKey))

\* SignClaims has returned an RS256 token under a keyset with an RSA key, and
\* GetPublicKey gives the RS256 public key for its key ID
SignerMatchesPublicKeyWitness ==
    /\ sc.pc = "done"
    /\ sc.token # EmptyToken
    /\ sc.keyID \in DOMAIN keyring
    /\ keyring[sc.keyID].rootKey.RSAKey = "rsaA"
    /\ sc.token[1].alg = "RS256"
    /\ GetPublicKey(keyring, sc.keyID).Algorithm = "RS256"

\* C24: RemoveKey(keyID) returns no error, whether or not the keyring holds
\* keyID; it takes keyID out of the keyring, leaves every other entry as it
\* was, and leaves every keystore file, those of keyID included, as it was.
RemoveKeyOnlyCache ==
    [][\A k \in KeyIDs :
          RemoveKey(k) =>
              /\ removeKey(keyring, k).err = "nil"
              /\ DOMAIN keyring' = DOMAIN keyring \ {k}
              /\ \A x \in DOMAIN keyring' : keyring'[x] = keyring[x]
              /\ files' = files]_vars

\* a key whose file is in the keystore is out of the keyring while another key
\* is in it
RemoveKeyOnlyCacheWitness ==
    \E k \in KeyIDs :
        /\ k \notin DOMAIN keyring
        /\ KeyFilePath(k, AeadProvider) \in DOMAIN files
        /\ DOMAIN keyring # {}
        /\ ~booted

\* C25: a start with configured wrapping providers and a loadable keystore
\* succeeds, and every configured provider is registered: the configuration
\* a wrapper of its type and name is given is that entry's.
ConfiguredProvidersRegistered ==
    (booted /\ Len(configs) > 0 /\ loadKeystore(files, TRUE).err = "nil") =>
        /\ running
        /\ \A i \in 1..Len(configs) :
              wrapperConfig(providerConfigs, configs[i].Provider, configs[i].Name) =
                  [config |-> configs[i].Config, ok |-> TRUE]

\* an answer to Keyring.Get that is no error and carries a key
HasKey(resp) == resp.err = "nil" /\ resp.Key # ""

\* C26: a replicateKey asks the leader first, with MinQueryIndex one below the
\* record's ModifyIndex and AllowStale unset; it asks peers only when the
\* leader erred or sent no key, each peer once, with AllowStale set, and none
\* after the first peer that sent a key without an error; when no server sent
\* a key it returns an error and has called AddKey zero times, otherwise it
\* calls AddKey once, with the key received.
ReplicateKeyProtocol ==
    (krr.reqs # <<>>) =>
        LET n == Len(krr.reqs)
            leader == krr.reqs[1]
            got == \E i \in 1..n : HasKey(krr.reqs[i].resp)
        IN /\ leader.to = Servers[1]
           /\ leader.req = [KeyID |-> krr.keyID,
                             MinQueryIndex |-> RootKeyMeta(krr.keyID).ModifyIndex - 1,
                             AllowStale |-> FALSE]
           /\ (n > 1) = ~HasKey(leader.resp)
           /\ \A i \in 2..n :
                 /\ krr.reqs[i].to \in {Servers[x] : x \in 2..Len(Servers)}
                 /\ krr.reqs[i].req = [leader.req EXCEPT !.AllowStale = TRUE]
                 /\ \A j \in 2..n : i # j => krr.reqs[i].to # krr.reqs[j].to
           /\ \A i \in 1..(n - 1) : ~HasKey(krr.reqs[i].resp)
           /\ ~got => (/\ n = Len(Servers)
                        /\ krr.pc = "iter"
                        /\ krr.rerr # "nil"
                        /\ krr.adds = <<>>)
           /\ got => (/\ krr.pc \in {"add", "iter"}
                       /\ (krr.pc = "add" => krr.adds = <<>>)
                       /\ (krr.pc = "iter" => krr.adds = <<krr.reqs[n].resp.Key>>))

\* a replicateKey has returned after an error from the leader, no key from the
\* peer it asked first and the key from the peer it asked next, which it
\* added
ReplicateKeyProtocolWitness ==
    /\ krr.pc = "iter"
    /\ Len(krr.reqs) = 3
    /\ krr.reqs[1].resp.err = "rpc-error"
    /\ krr.reqs[2].resp = [Key |-> "", err |-> "nil"]
    /\ HasKey(krr.reqs[3].resp)
    /\ krr.adds = <<krr.keyID>>
    /\ krr.keyID \in DOMAIN keyring

\* C27: every Encrypt and every SignClaims either returns the key that is the
\* active key of the log when the call looks it up, never a key that a
\* rotation committed before has made inactive, or fails with an error.
ActiveKeyIsFresh ==
    [][/\ \A n \in RandomBytes(NonceSize) :
            EncryptCall(<<>>, n) =>
                \/ enc'.err # "nil" /\ enc'.keyID = ""
                \/ enc'.err = "nil" /\ enc'.keyID \in ActiveRootKeyMeta(metas)
       /\ (sc' # sc /\ sc'.pc = "done") =>
                \/ sc'.token = EmptyToken /\ sc'.keyID = "" /\ sc'.reterr # "nil"
                \/ /\ sc'.token # EmptyToken
                   /\ sc'.keyID \in ActiveRootKeyMeta(metas)
                   /\ sc'.token[1].kid = sc'.keyID]_vars

\* the calls that only read the keyring
ReaderOps == {"Encrypt", "Decrypt", "VerifyClaim", "GetPublicKey"}

\* C28: only AddKey and RemoveKey hold the keyring lock as writers; Encrypt,
\* Decrypt, VerifyClaim and GetPublicKey hold it as readers, so a goroutine
\* in one of these is never kept waiting by another goroutine in one of them.
ReadersShareLock ==
    /\ lock.writer # "" => th[lock.writer].op \in {"AddKey", "RemoveKey"}
    /\ \A g \in Goroutines :
          (th[g].pc = "lock" /\ th[g].op \in ReaderOps) =>
              \A h \in Goroutines \ {g} :
                  (th[h].pc = "held" /\ th[h].op \in ReaderOps) => ENABLED GoLock(g)

\* C29: while AddKey writes the keystore files it does not hold the keyring
\* lock: the lock is released before the save and not taken again.
AddKeySavesUnlocked ==
    [][\A g \in Goroutines :
          /\ th'[g].pc = "save" => (lock'.writer # g /\ g \notin lock'.readers)
          /\ \A kek \in KEKs :
                GoSave(g, kek) => (lock.writer # g /\ g \notin lock.readers)]_vars

\* a goroutine is in AddKey's save, its keyset already in the keyring, while
\* another goroutine holds the keyring lock
AddKeySavesUnlockedWitness ==
    \E g \in Goroutines : \E h \in Goroutines \ {g} :
        /\ th[g].op = "AddKey"
        /\ th[g].pc = "save"
        /\ th[g].keyID \in DOMAIN keyring
        /\ th[h].pc = "held"
        /\ lock.writer = h


\* the keyring holds key k with non-empty key material
HeldWithMaterial(k) == k \in DOMAIN keyring /\ keyring[k].rootKey.Key # ""

\* C30: the replicator skips a key that the keyring holds with non-empty
\* material: the step of run that finds such a key goes on with the next key
\* with no request sent and no AddKey called, every request and every AddKey
\* of the replicator is for a key the keyring does not hold, and no step of
\* the replicator changes a keyset that holds material.
ReplicatorSkipsHeldKeys ==
    [][krr' # krr =>
         /\ (krr.pc = "iter" /\ krr.iter # <<>> /\ HeldWithMaterial(Head(krr.iter))) =>
               /\ krr'.pc = "iter"
               /\ krr'.iter = Tail(krr.iter)
               /\ krr'.reqs = <<>>
               /\ krr'.adds = <<>>
               /\ keyring' = keyring
               /\ files' = files
         /\ krr'.pc = "fetch" => ~HeldWithMaterial(krr'.keyID)
         /\ krr'.reqs # krr.reqs /\ krr'.reqs # <<>> => ~HeldWithMaterial(krr.keyID)
         /\ krr'.adds # krr.adds /\ krr'.adds # <<>> => ~HeldWithMaterial(krr.resp)
         /\ \A k \in DOMAIN keyring :
               HeldWithMaterial(k) => (k \in DOMAIN keyring' /\ keyring'[k] = keyring[k])]_vars

\* a later pass has just skipped the first key of the table, which the
\* replicator installed before: nothing was requested and nothing added
ReplicatorSkipsHeldKeysWitness ==
    /\ krr.pc = "iter"
    /\ krr.keyID = ""
    /\ krr.reqs = <<>>
    /\ krr.adds = <<>>
    /\ RootKeyMetas(metas) # <<>>
    /\ krr.iter = Tail(RootKeyMetas(metas))
    /\ HeldWithMaterial(Head(RootKeyMetas(metas)))
    /\ keyring[Head(RootKeyMetas(metas))].rootKey = created[Head(RootKeyMetas(metas))]


\* replicateKey for key k has just returned an error to run
ReplicateKeyFailed(k) == krr.pc = "iter" /\ krr.keyID = k /\ krr.rerr # "nil"

\* run calls replicateKey for key k again, or has no reason left to
AttemptedAgain(k) == (krr.pc = "fetch" /\ krr.keyID = k) \/ shutdown \/ metas[k] = "none"

ReplicatorExitsOnlyOnCancel ==
    /\ [](krr.pc = "exited" => (shutdown \/ krr.ctx = "done"))
    /\ (shutdown \/ krr.ctx = "done") ~> (krr.pc = "exited")

\* the replicator has returned after stop() alone, with a key installed
ReplicatorExitsOnlyOnCancelWitness ==
    /\ krr.pc = "exited"
    /\ krr.ctx = "done"
    /\ ~shutdown
    /\ keyring # EmptyMap


\* C33: SignClaims does not wait when its first lookup finds the active
\* keyset; otherwise it sleeps SignSleepMs between polls, polls only while
\* neither the deadline has passed nor shutdown is signalled, and returns at
\* its next look at the context once either has happened, so that it never
\* waits beyond SignTimeoutMs.
SignWaitBounded ==
    [][sc' # sc =>
         /\ (sc.pc \in {"idle", "done"} /\ activeKeySet(metas, keyring).err = "nil") =>
               (sc'.pc = "done" /\ sc'.elapsed = 0)
         /\ (sc.pc = "wait" /\ sc'.pc = "wait") =>
               /\ sc'.elapsed = sc.elapsed + SignSleepMs
               /\ sc.elapsed < SignTimeoutMs
               /\ ~shutdown
         /\ (sc.pc = "wait" /\ (shutdown \/ sc.elapsed >= SignTimeoutMs)) =>
               sc'.pc = "done"
         /\ sc'.pc = "wait" => sc'.elapsed <= SignTimeoutMs]_vars

\* a call that found no active keyset has polled up to the deadline and is
\* about to return
SignWaitBoundedWitness ==
    /\ sc.pc = "wait"
    /\ sc.first # "nil"
    /\ sc.elapsed = SignTimeoutMs
    /\ ~shutdown


AddCipherErrors == {"missing-metadata", "invalid-algorithm", "bad-key", "bad-rsa-key"}

\* C34: an AddKey whose root key addCipher refuses (nil root key or metadata,
\* unsupported algorithm, a key the cipher rejects, an RSA key that is not
\* PKCS #1) returns that error and leaves every entry of the keyring, the one
\* under the same key ID included, and the keystore as they were.
FailedAddLeavesKeyring ==
    [][\A k \in KeyIDs : \A kek \in KEKs :
          \A bad \in BadRootKeys(RootKeyOf(k, "dek1", "", <<AeadProvider>>)) :
             AddKeyOf(bad, kek) =>
                /\ ak'.err \in AddCipherErrors
                /\ bad # Nil /\ bad.Meta # Nil /\ bad.RSAKey = "not-pkcs1" =>
                      ak'.err = "bad-rsa-key"
                /\ keyring' = keyring
                /\ files' = files]_vars

\* AddKey has just refused an RSA key that is not PKCS #1 for a key ID whose
\* keyset, without RSA key, the keyring holds
FailedAddLeavesKeyringWitness ==
    /\ ak.err = "bad-rsa-key"
    /\ ak.keyID \in DOMAIN keyring
    /\ keyring[ak.keyID].rootKey = created[ak.keyID]
    /\ keyring[ak.keyID].rsaPrivateKey = NoRSAKey


\* C35: every keyset of the keyring is stored under the key ID of its own
\* root key's metadata, has a cipher and an Ed25519 private key, and has its
\* RSA private key and its RSA public key in DER form both when the root key
\* has an RSAKey and neither when it has none.
KeysetWellFormed ==
    \A k \in DOMAIN keyring :
        LET ks == keyring[k]
        IN /\ ks.rootKey.Meta.KeyID = k
           /\ ks.cipher # ""
           /\ ks.eddsaPrivateKey = Ed25519NewKeyFromSeed(ks.rootKey.Key)
           /\ (ks.rsaPrivateKey # NoRSAKey) <=> (ks.rootKey.RSAKey # "")
           /\ (ks.rsaPKCS1PublicKey # NoRSAKey) <=> (ks.rootKey.RSAKey # "")

\* the keyring holds a keyset with RSA key and one without, installed by
\* loadKeystore at a restart
KeysetWellFormedWitness ==
    /\ booted
    /\ \E k \in DOMAIN keyring : keyring[k].rootKey.RSAKey # ""
    /\ \E k \in DOMAIN keyring : keyring[k].rootKey.RSAKey = ""


\* C36: a successful Encrypt(c) returns NonceSize + Len(c) + TagSize bytes:
\* first the nonce it drew, then c sealed by the cipher of the log's active
\* key with that nonce and with the key ID as additional data; the key ID it
\* returns is that keyset's.
CiphertextFraming ==
    [][\A c \in Cleartexts : \A n \in RandomBytes(NonceSize) :
          (EncryptCall(c, n) /\ enc'.err = "nil") =>
             /\ Len(enc'.ciphertext) = NonceSize + Len(c) + TagSize
             /\ SubSeq(enc'.ciphertext, 1, NonceSize) = n
             /\ enc'.keyID \in DOMAIN keyring
             /\ enc'.keyID = keyring[enc'.keyID].rootKey.Meta.KeyID
             /\ metas[enc'.keyID] = "active"
             /\ SubSeq(enc'.ciphertext, NonceSize + 1, Len(enc'.ciphertext))
                   = Seal(keyring[enc'.keyID].cipher, n, c, enc'.keyID)
             /\ enc'.ciphertext[NonceSize + Len(c) + 1].b
                   = <<keyring[enc'.keyID].cipher, Values(n), enc'.keyID, Values(c)>>]_vars

\* Encrypt has returned a ciphertext for a cleartext of the greatest length
\* under the second key of the log
CiphertextFramingWitness ==
    /\ enc.err = "nil"
    /\ Len(enc.cleartext) = MaxClearLen
    /\ Len(enc.ciphertext) = NonceSize + MaxClearLen + TagSize
    /\ enc.keyID \in KeyIDs
    /\ KeyIndex(enc.keyID) = 2


\* C37: every return of SignClaims is either a token with a key ID and no
\* error, or no token with an error; never no token and no error.
SignClaimsReturnWellFormed ==
    sc.pc = "done" =>
        \/ sc.token # EmptyToken /\ sc.keyID # "" /\ sc.reterr = "nil"
        \/ sc.token = EmptyToken /\ sc.reterr # "nil"


\* C38: once the log has tombstoned a key and RemoveKey has taken it out of
\* the keyring, no later step, a restart of the process included, makes the
\* key available again: GetPublicKey, and with it VerifyClaim, and Decrypt
\* still find no such key.
RemovedKeyStaysRemoved ==
    [][\A k \in KeyIDs :
          (metas[k] = "none" /\ k \in DOMAIN created /\ k \notin DOMAIN keyring) =>
             /\ GetPublicKey(keyring', k).err = "no-such-key"
             /\ keysetByIDLocked(keyring', k).err = "no-such-key"]_vars


\* C39: whenever replicateKey for the metadata of key K returns without an
\* error, the keyring holds a keyset under K, and its AddKey has installed
\* no keyset under another key ID, whatever root key the reply carried.
ReplicatorInstallsRequestedKey ==
    [][(krr.pc = "add" /\ krr'.pc = "iter" /\ krr'.rerr = "nil") =>
          /\ krr.keyID \in DOMAIN keyring'
          /\ keyring'[krr.keyID].rootKey.Meta.KeyID = krr.keyID
          /\ \A k \in DOMAIN keyring' :
                (k \notin DOMAIN keyring \/ keyring'[k] # keyring[k]) => k = krr.keyID]_vars


\* C40: when every AddKey call has returned, the keyring and the keystore
\* agree: loading the key files restores, for every key ID of the keyring,
\* the DEK and the RSA key that the keyring holds for it.
CacheMatchesKeystore ==
    (\A g \in Goroutines : th[g].pc = "idle") =>
        LET l == loadKeystore(files, TRUE)
        IN /\ l.err = "nil"
           /\ \A k \in DOMAIN keyring :
                 /\ k \in DOMAIN l.ring
                 /\ l.ring[k].rootKey.Key = keyring[k].rootKey.Key
                 /\ l.ring[k].rootKey.RSAKey = keyring[k].rootKey.RSAKey

=============================================================================
